---- MODULE Spec2Model ----
(***************************************************************************)
(* Role based access control of the finance backend: the RBACService       *)
(* (services/rbac.service.ts), the built-in permission and role tables     *)
(* (utils/constant.ts) and the part of UserService.createUser that gives   *)
(* a new user its roles.                                                   *)
(*                                                                         *)
(* The store is three tables.  A row's id stands for the generated uuid:   *)
(* it is the pair <<name, k>> for the k-th row saved under that name, so   *)
(* two rows never share an id and a table can hold two rows of one name.   *)
(* A user's roles are the rows of the user/role join as the loaded array   *)
(* user.roles holds them: a bag of role ids, so that a role pushed twice   *)
(* is seen as held twice.                                                  *)
(***************************************************************************)
EXTENDS Integers, Sequences, FiniteSets, Bags, TLC

VARIABLES
    permissions,  \* the permission table: a set of rows
    roles,        \* the role table: a set of rows, each with its permission ids
    users,        \* the user table: a sequence of rows, a user's id is its index
    pending,      \* per client, the createRole/createPermission call in flight
    last,         \* the most recent call and its outcome: [op, args, out]
    resources,    \* per entity model, the rows of its table
    cache,        \* the cache store: a function from keys to cached values
    jobs,         \* the analytics queue: the jobs added, in the order added
    clock,        \* the time, in seconds
    invites       \* the invite table: a function from tokens to rows

\* What the calls on roles, permissions and principals leave alone.
aux == << resources, cache, jobs, clock, invites >>

vars == << permissions, roles, users, pending, last, aux >>

-----------------------------------------------------------------------------
(* Bounds of the model *)

MaxUsers == 1
NumClients == 2
MaxJobs == 4
MaxTime == 3
RetryBudget == 1
MaxQueued == 2
MaxDays == 1
MaxInvites == 1

UserIds == 1..(MaxUsers + 1)      \* the last id is never given to a user
Clients == 1..NumClients

Emails == { "user" \o ToString(i) \o "@x.io" : i \in 1..MaxUsers }
Companies == {"c1"}

-----------------------------------------------------------------------------
(* utils/constant.ts *)

Perm(r, a) == [name |-> r \o ":" \o a, resource |-> r, action |-> a]

APP_PERMISSIONS ==
    << Perm("transaction", "read"), Perm("transaction", "write"),
       Perm("transaction", "delete"), Perm("company", "read"),
       Perm("company", "write"), Perm("user", "read"), Perm("user", "write"),
       Perm("user", "delete"), Perm("notice", "read"), Perm("notice", "write"),
       Perm("analytics", "read"), Perm("*", "*") >>

APP_ROLES ==
    << [name |-> "super_admin", permissions |-> << "*:*" >>],
       [name |-> "admin",
        permissions |-> << "transaction:read", "transaction:write",
                           "transaction:delete", "company:read",
                           "company:write", "user:read", "user:write",
                           "user:delete", "notice:read", "notice:write",
                           "analytics:read" >>],
       [name |-> "manager",
        permissions |-> << "transaction:read", "transaction:write",
                           "company:read", "user:read", "notice:read",
                           "notice:write", "analytics:read" >>],
       [name |-> "member",
        permissions |-> << "transaction:read", "company:read", "user:read",
                           "notice:read" >>] >>

ROLE_HIERARCHY == << "member", "manager", "admin", "super_admin" >>

-----------------------------------------------------------------------------
(* Helpers for arrays and the repositories *)

Range(s) == { s[i] : i \in DOMAIN s }

\* Array.prototype.indexOf: the first 0-based position of x, or -1.
IndexOf(s, x) ==
    IF \E i \in DOMAIN s : s[i] = x
    THEN (CHOOSE i \in DOMAIN s : s[i] = x /\ \A j \in 1..(i - 1) : s[j] # x) - 1
    ELSE -1

\* repo.findOne({ where: { name } }): the rows of that name (none: not found).
FindByName(table, name) == { row \in table : row.name = name }

\* repo.find({ where: names.map((name) => ({ name })) }): the rows whose name
\* is one of the names, each row once; an empty list of conditions is no
\* condition at all and selects every row.
FindByNames(table, names) ==
    IF Len(names) = 0 THEN table
    ELSE { row \in table : row.name \in Range(names) }

\* The id the store gives a row saved under a name.
NewId(table, name) == << name, Cardinality(FindByName(table, name)) + 1 >>

\* The unique index on the name column of roles and permissions.
NameIsFree(table, name) == FindByName(table, name) = {}

\* A find that also returns the soft-removed rows.
UserExists_WithDeleted(us, u) == u \in DOMAIN us

\* userRepo.findOne({ where: { id } }): a soft-removed row is not found.
UserExists(us, u) == u \in DOMAIN us /\ ~us[u].deleted

\* user.roles as loaded with relations: ['roles'] (the rows of the ids held).
RolesOf(us, rs, u) == { role \in rs : BagIn(role.id, us[u].roles) }

\* role.permissions as loaded with relations: ['roles.permissions'].
PermissionsOf(ps, role) == { p \in ps : p.id \in role.permissions }


-----------------------------------------------------------------------------
(* RBACService: the permission and role checks *)

\* A wildcard resource taken to grant whatever its action names.
checkUserPermission_AnyResource(ps, rs, us, u, resource, action) ==
    \E role \in RolesOf(us, rs, u) :
        \E p \in PermissionsOf(ps, role) :
            /\ p.resource = resource \/ p.resource = "*"
            /\ p.action = action \/ p.action = "*"

checkUserPermission(ps, rs, us, u, resource, action) ==
    \E role \in RolesOf(us, rs, u) :
        \E p \in PermissionsOf(ps, role) :
            \/ p.resource = resource /\ (p.action = action \/ p.action = "*")
            \/ p.resource = "*" /\ p.action = "*"

hasPermission(ps, rs, us, u, resource, action) ==
    IF ~UserExists(us, u) THEN FALSE
    ELSE checkUserPermission(ps, rs, us, u, resource, action)

hasAnyPermission(ps, rs, us, u, resource, actions) ==
    IF ~UserExists(us, u) THEN FALSE
    ELSE \E i \in DOMAIN actions :
            checkUserPermission(ps, rs, us, u, resource, actions[i])

\* every() written as some().
hasAllPermissions_Some(ps, rs, us, u, resource, actions) ==
    IF ~UserExists(us, u) THEN FALSE
    ELSE \E i \in DOMAIN actions :
            checkUserPermission(ps, rs, us, u, resource, actions[i])

hasAllPermissions(ps, rs, us, u, resource, actions) ==
    IF ~UserExists(us, u) THEN FALSE
    ELSE \A i \in DOMAIN actions :
            checkUserPermission(ps, rs, us, u, resource, actions[i])

\* The comparison made strict: a role of exactly the minimum level is refused.
hasMinimumRole_Strict(rs, us, u, minimumRole) ==
    IF ~UserExists(us, u) THEN "false"
    ELSE LET minimumLevel == IndexOf(ROLE_HIERARCHY, minimumRole)
         IN  IF minimumLevel = -1 THEN "Error: Unknown role"
             ELSE IF \E role \in RolesOf(us, rs, u) :
                        IndexOf(ROLE_HIERARCHY, role.name) > minimumLevel
                  THEN "true"
                  ELSE "false"

\* "true", "false", or the Error thrown for a role the hierarchy does not name.
hasMinimumRole(rs, us, u, minimumRole) ==
    IF ~UserExists(us, u) THEN "false"
    ELSE LET minimumLevel == IndexOf(ROLE_HIERARCHY, minimumRole)
         IN  IF minimumLevel = -1 THEN "Error: Unknown role"
             ELSE IF \E role \in RolesOf(us, rs, u) :
                        IndexOf(ROLE_HIERARCHY, role.name) >= minimumLevel
                  THEN "true"
                  ELSE "false"

Bool(b) == IF b THEN "true" ELSE "false"

\* What a repository call throws when the store cannot be reached.
StoreError == "Error: store unreachable"

hasRole(rs, us, u, roleName) ==
    IF ~UserExists(us, u) THEN FALSE
    ELSE \E role \in RolesOf(us, rs, u) : role.name = roleName

\* user.roles.map((role) => role.name), as the set of the names.
getUserRoles(rs, us, u) ==
    IF ~UserExists(us, u) THEN {}
    ELSE { role.name : role \in RolesOf(us, rs, u) }

hasAnyRole(rs, us, u, roleNames) ==
    IF ~UserExists(us, u) THEN FALSE
    ELSE LET userRoleNames == { role.name : role \in RolesOf(us, rs, u) }
         IN  \E i \in DOMAIN roleNames : roleNames[i] \in userRoleNames

hasAllRoles(rs, us, u, roleNames) ==
    IF ~UserExists(us, u) THEN FALSE
    ELSE LET userRoleNames == { role.name : role \in RolesOf(us, rs, u) }
         IN  \A i \in DOMAIN roleNames : roleNames[i] \in userRoleNames

-----------------------------------------------------------------------------
(* RBACService.ownsResource *)

\* The entity models that have a repository, with the ownership columns each
\* declares.
EntityFields ==
    [ Invoice |-> { "ownerId", "createdBy" }, Note |-> { "userId", "authorId" } ]

ownershipFields == << "userId", "ownerId", "createdBy", "authorId" >>

\* repository.findOne({ where: { id: resourceId, [field]: userId } }): it
\* throws when the store cannot be reached, and it throws a condition on a
\* property the entity does not declare.
ProbeField(res, storeUp, userId, resourceModel, resourceId, field) ==
    IF ~storeUp THEN StoreError
    ELSE IF field \notin EntityFields[resourceModel]
    THEN "EntityPropertyNotFoundError"
    ELSE IF \E row \in res[resourceModel] :
                row.id = resourceId /\ row.owners[field] = userId
    THEN "found"
    ELSE "null"

\* The loop over the ownership fields left at the first probe that throws.
RECURSIVE ProbeFields_StopAtError(_, _, _, _, _, _)
ProbeFields_StopAtError(res, storeUp, userId, resourceModel, resourceId, i) ==
    IF i > Len(ownershipFields) THEN "false"
    ELSE LET probe == ProbeField(res, storeUp, userId, resourceModel,
                                 resourceId, ownershipFields[i])
         IN  IF probe = "found" THEN "true"
             ELSE IF probe = "null"
             THEN ProbeFields_StopAtError(res, storeUp, userId, resourceModel,
                                          resourceId, i + 1)
             ELSE "false"

\* The loop over the ownership fields, from the i-th: the inner catch goes on
\* to the next field.
RECURSIVE ProbeFields(_, _, _, _, _, _)
ProbeFields(res, storeUp, userId, resourceModel, resourceId, i) ==
    IF i > Len(ownershipFields) THEN "false"
    ELSE LET probe == ProbeField(res, storeUp, userId, resourceModel,
                                 resourceId, ownershipFields[i])
         IN  IF probe = "found" THEN "true"
             ELSE ProbeFields(res, storeUp, userId, resourceModel, resourceId,
                              i + 1)

\* getRepository throws for a name that is no entity; the outer catch
\* answers false.
ownsResource(res, storeUp, userId, resourceModel, resourceId) ==
    IF resourceModel \notin DOMAIN EntityFields THEN "false"
    ELSE ProbeFields(res, storeUp, userId, resourceModel, resourceId, 1)

-----------------------------------------------------------------------------
(* RBACService: a principal's role set *)

\* The push without the check for a role already held.
AddRole_Always(held, id) == held (+) SetToBag({id})

\* if (!user.roles.some((r) => r.id === role.id)) user.roles.push(role)
AddRole(held, id) ==
    IF BagIn(id, held) THEN held ELSE held (+) SetToBag({id})

\* Only one of the roles found is pushed.
AddRoles_OnlyOne(held, ids) ==
    IF ids = {} THEN held
    ELSE AddRole(held, CHOOSE x \in ids : TRUE)

RECURSIVE AddRoles(_, _)
AddRoles(held, ids) ==
    IF ids = {} THEN held
    ELSE LET id == CHOOSE x \in ids : TRUE
         IN  AddRoles(AddRole(held, id), ids \ {id})

\* user.roles.filter(keep): the held roles whose row is among keep.
FilterRoles(held, keep) ==
    LET ids == { id \in DOMAIN held : \E role \in keep : role.id = id }
    IN  [id \in ids |-> held[id]]

\* The role pushed on the loaded user, and the user never saved.
assignRole_NotSaved(rs, us, u, roleName) ==
    IF ~UserExists(us, u) \/ FindByName(rs, roleName) = {}
    THEN [out |-> "Error: User or role not found", users |-> us]
    ELSE [out |-> "ok", users |-> us]

assignRole(rs, us, u, roleName) ==
    LET found == FindByName(rs, roleName)
    IN  IF ~UserExists(us, u) \/ found = {}
        THEN [out |-> "Error: User or role not found", users |-> us]
        ELSE LET role == CHOOSE r \in found : TRUE
             IN  [out |-> "ok",
                  users |-> [us EXCEPT ![u].roles = AddRole(@, role.id)]]

assignRoles(rs, us, u, roleNames) ==
    IF ~UserExists(us, u) THEN [out |-> "Error: User not found", users |-> us]
    ELSE LET found == FindByNames(rs, roleNames)
         IN  IF Cardinality(found) # Len(roleNames)
             THEN [out |-> "Error: Some roles not found", users |-> us]
             ELSE [out |-> "ok",
                   users |-> [us EXCEPT ![u].roles =
                                 AddRoles(@, { r.id : r \in found })]]

removeRole(rs, us, u, roleName) ==
    IF ~UserExists(us, u) THEN [out |-> "Error: User not found", users |-> us]
    ELSE [out |-> "ok",
          users |-> [us EXCEPT ![u].roles =
                        FilterRoles(@, { role \in RolesOf(us, rs, u) :
                                            role.name # roleName })]]

\* The filter without its negation: the named roles are the ones kept.
removeRoles_KeepsNamed(rs, us, u, roleNames) ==
    IF ~UserExists(us, u) THEN [out |-> "Error: User not found", users |-> us]
    ELSE [out |-> "ok",
          users |-> [us EXCEPT ![u].roles =
                        FilterRoles(@, { role \in RolesOf(us, rs, u) :
                                            role.name \in Range(roleNames) })]]

removeRoles(rs, us, u, roleNames) ==
    IF ~UserExists(us, u) THEN [out |-> "Error: User not found", users |-> us]
    ELSE [out |-> "ok",
          users |-> [us EXCEPT ![u].roles =
                        FilterRoles(@, { role \in RolesOf(us, rs, u) :
                                            role.name \notin Range(roleNames) })]]

-----------------------------------------------------------------------------
(* RBACService: roles and permissions *)

\* permissionRepo.save(permissionRepo.create(p)): an insert, which the unique
\* index on the name refuses.
SavePermission(ps, p) ==
    IF NameIsFree(ps, p.name)
    THEN [out |-> "ok",
          permissions |-> ps \cup { [id |-> NewId(ps, p.name), name |-> p.name,
                                     resource |-> p.resource,
                                     action |-> p.action] }]
    ELSE [out |-> "QueryFailedError: duplicate key", permissions |-> ps]

\* roleRepo.save(roleRepo.create({ name, permissions })).
SaveRole(rs, name, perms) ==
    IF NameIsFree(rs, name)
    THEN [out |-> "ok",
          roles |-> rs \cup { [id |-> NewId(rs, name), name |-> name,
                               permissions |-> { p.id : p \in perms }] }]
    ELSE [out |-> "QueryFailedError: duplicate key", roles |-> rs]

\* The name built with another separator than the built-in table uses.
PermissionName_Dot(resource, action) == resource \o "." \o action

\* const name = `${resource}:${action}`
PermissionName(resource, action) == resource \o ":" \o action

\* createPermission up to its first await: the lookup of an existing permission.
PermissionExists(ps, resource, action) ==
    FindByName(ps, PermissionName(resource, action)) # {}

\* createPermission from the lookup on: create and save.
createPermissionSave(ps, resource, action) ==
    SavePermission(ps, [name |-> PermissionName(resource, action),
                        resource |-> resource, action |-> action])

createPermission(ps, resource, action) ==
    IF PermissionExists(ps, resource, action)
    THEN [out |-> "Error: Permission already exists", permissions |-> ps]
    ELSE createPermissionSave(ps, resource, action)

\* createRole up to its first await: the lookup of an existing role.
RoleExists(rs, roleName) == FindByName(rs, roleName) # {}

\* createRole from the lookup on: find the permissions, create and save.
createRoleSave(ps, rs, roleName, permissionNames) ==
    LET found == FindByNames(ps, permissionNames)
    IN  IF Cardinality(found) # Len(permissionNames)
        THEN [out |-> "Error: Some permissions not found", roles |-> rs]
        ELSE SaveRole(rs, roleName, found)

createRole(ps, rs, roleName, permissionNames) ==
    IF RoleExists(rs, roleName)
    THEN [out |-> "Error: Role already exists", roles |-> rs]
    ELSE createRoleSave(ps, rs, roleName, permissionNames)

\* role.permissions = permissions; roleRepo.save(role): the row keeps its id.
updateRolePermissions(ps, rs, roleName, permissionNames) ==
    LET role == FindByName(rs, roleName)
        found == FindByNames(ps, permissionNames)
    IN  IF role = {}
        THEN [out |-> "Error: Role not found", roles |-> rs]
        ELSE IF Cardinality(found) # Len(permissionNames)
        THEN [out |-> "Error: Some permissions not found", roles |-> rs]
        ELSE [out |-> "ok",
              roles |-> (rs \ role) \cup
                        { [r EXCEPT !.permissions = { p.id : p \in found }] :
                            r \in role }]

\* The first loop of seedRolesAndPermissions, from the i-th built-in permission.
RECURSIVE SeedPermissions(_, _)
SeedPermissions(ps, i) ==
    IF i > Len(APP_PERMISSIONS) THEN [out |-> "ok", permissions |-> ps]
    ELSE LET perm == APP_PERMISSIONS[i]
         IN  IF FindByName(ps, perm.name) # {}
             THEN SeedPermissions(ps, i + 1)
             ELSE LET saved == SavePermission(ps, perm)
                  IN  IF saved.out # "ok" THEN saved
                      ELSE SeedPermissions(saved.permissions, i + 1)

\* The built-in permissions written over those of a role that exists.
RECURSIVE SeedRoles_Overwrite(_, _, _)
SeedRoles_Overwrite(ps, rs, i) ==
    IF i > Len(APP_ROLES) THEN [out |-> "ok", roles |-> rs]
    ELSE LET roleData == APP_ROLES[i]
             perms == FindByNames(ps, roleData.permissions)
         IN  IF FindByName(rs, roleData.name) # {}
             THEN SeedRoles_Overwrite(ps,
                      { IF r.name = roleData.name
                        THEN [r EXCEPT !.permissions = { p.id : p \in perms }]
                        ELSE r : r \in rs }, i + 1)
             ELSE LET saved == SaveRole(rs, roleData.name, perms)
                  IN  IF saved.out # "ok" THEN saved
                      ELSE SeedRoles_Overwrite(ps, saved.roles, i + 1)

\* The second loop of seedRolesAndPermissions, from the i-th built-in role.
RECURSIVE SeedRoles(_, _, _)
SeedRoles(ps, rs, i) ==
    IF i > Len(APP_ROLES) THEN [out |-> "ok", roles |-> rs]
    ELSE LET roleData == APP_ROLES[i]
         IN  IF FindByName(rs, roleData.name) # {}
             THEN SeedRoles(ps, rs, i + 1)
             ELSE LET saved == SaveRole(rs, roleData.name,
                                        FindByNames(ps, roleData.permissions))
                  IN  IF saved.out # "ok" THEN saved
                      ELSE SeedRoles(ps, saved.roles, i + 1)

seedRolesAndPermissions(ps, rs) ==
    LET p == SeedPermissions(ps, 1)
    IN  IF p.out # "ok"
        THEN [out |-> p.out, permissions |-> p.permissions, roles |-> rs]
        ELSE LET r == SeedRoles(p.permissions, rs, 1)
             IN  [out |-> r.out, permissions |-> p.permissions,
                  roles |-> r.roles]

-----------------------------------------------------------------------------
(* UserService.createUser *)

\* Without the last step: the roles are those of the second lookup.
createUser_NoFallback(ps, rs, us, email, roleNames, companyId) ==
    LET same == [out |-> "", permissions |-> ps, roles |-> rs, users |-> us]
        where == IF Len(roleNames) > 0 THEN roleNames ELSE << "member" >>
        first == FindByNames(rs, where)
        seeded == IF first = {} THEN seedRolesAndPermissions(ps, rs)
                  ELSE [out |-> "ok", permissions |-> ps, roles |-> rs]
        second == IF first = {} THEN FindByNames(seeded.roles, where)
                  ELSE first
        found == second
    IN  IF \E u \in DOMAIN us : UserExists(us, u) /\ us[u].email = email
        THEN [same EXCEPT !.out =
                 "ValidationError: User already exists with this email"]
        ELSE IF companyId \notin Companies
        THEN [same EXCEPT !.out = "ValidationError: Company not found"]
        ELSE IF seeded.out # "ok"
        THEN [same EXCEPT !.out = seeded.out,
                          !.permissions = seeded.permissions,
                          !.roles = seeded.roles]
        ELSE [out |-> "ok", permissions |-> seeded.permissions,
              roles |-> seeded.roles,
              users |-> Append(us, [email |-> email, companyId |-> companyId,
                                    status |-> "active", deleted |-> FALSE,
                                    roles |-> SetToBag({ r.id : r \in found })])]

createUser(ps, rs, us, email, roleNames, companyId) ==
    LET same == [out |-> "", permissions |-> ps, roles |-> rs, users |-> us]
        where == IF Len(roleNames) > 0 THEN roleNames ELSE << "member" >>
        first == FindByNames(rs, where)
        seeded == IF first = {} THEN seedRolesAndPermissions(ps, rs)
                  ELSE [out |-> "ok", permissions |-> ps, roles |-> rs]
        second == IF first = {} THEN FindByNames(seeded.roles, where)
                  ELSE first
        found == IF second = {} THEN FindByName(seeded.roles, "member")
                 ELSE second
    IN  IF \E u \in DOMAIN us : UserExists(us, u) /\ us[u].email = email
        THEN [same EXCEPT !.out =
                 "ValidationError: User already exists with this email"]
        ELSE IF companyId \notin Companies
        THEN [same EXCEPT !.out = "ValidationError: Company not found"]
        ELSE IF seeded.out # "ok"
        THEN [same EXCEPT !.out = seeded.out,
                          !.permissions = seeded.permissions,
                          !.roles = seeded.roles]
        ELSE [out |-> "ok", permissions |-> seeded.permissions,
              roles |-> seeded.roles,
              users |-> Append(us, [email |-> email, companyId |-> companyId,
                                    status |-> "active", deleted |-> FALSE,
                                    roles |-> SetToBag({ r.id : r \in found })])]

-----------------------------------------------------------------------------
(* UserService: the cached reads.  A user id is written into a key as its  *)
(* decimal string; a parameter that is not given is "" or 0, which the     *)
(* code's truth tests take alike.                                          *)

NoUser == 0
NoCache == << >>

\* The parts pushed for id, companyId, page and limit, joined by ':'.
generateCacheKey(type, params) ==
    "user:" \o type
      \o (IF params.id # "" THEN ":" \o params.id ELSE "")
      \o (IF params.companyId # "" THEN ":company:" \o params.companyId ELSE "")
      \o (IF params.page # 0 THEN ":page:" \o ToString(params.page) ELSE "")
      \o (IF params.limit # 0 THEN ":limit:" \o ToString(params.limit) ELSE "")

\* The key getUsers builds: the filters it passes are not among the parts.
ListKey(params, companyId) ==
    generateCacheKey("list", [id |-> "", companyId |-> companyId,
                              page |-> params.page, limit |-> params.limit])

\* The key of the detail read without the id.
DetailKey_NoId(id) == "user:detail:"

\* const cacheKey = `user:detail:${id}`
DetailKey(id) == "user:detail:" \o ToString(id)

\* CacheService.deletePattern: a pattern that ends in '*' removes every key
\* it is a prefix of, any other pattern the key equal to it.
MatchesPattern(key, pattern) ==
    LET n == Len(pattern)
    IN  IF n > 0 /\ SubSeq(pattern, n, n) = "*"
        THEN /\ Len(key) >= n - 1
             /\ SubSeq(key, 1, n - 1) = SubSeq(pattern, 1, n - 1)
        ELSE key = pattern

deletePattern(ch, pattern) ==
    [k \in { key \in DOMAIN ch : ~MatchesPattern(key, pattern) } |-> ch[k]]

invalidateUserCaches(ch, companyId, userId) ==
    LET lists == deletePattern(ch, "user:list:company:" \o companyId \o "*")
    IN  IF userId # NoUser
        THEN deletePattern(lists, "user:detail:" \o ToString(userId))
        ELSE lists

\* PAGINATION
defaultPage == 1
defaultLimit == 20
maxLimit == 100

Min(a, b) == IF a < b THEN a ELSE b

\* ILike(`%${search}%`) on the email, for the lower-case strings used here.
Contains(s, t) ==
    \E i \in 1..(Len(s) - Len(t) + 1) : SubSeq(s, i, i + Len(t) - 1) = t

\* The ids of a set in ascending order.
Ascending(S) ==
    CHOOSE s \in [1..Cardinality(S) -> S] :
        \A i, j \in DOMAIN s : i < j => s[i] < s[j]

Reverse(s) == [i \in DOMAIN s |-> s[Len(s) + 1 - i]]

\* What a read returns of a user row.
UserView(us, id) ==
    [id |-> id, email |-> us[id].email, companyId |-> us[id].companyId,
     status |-> us[id].status]

\* buildQueryFilters and findAndCount: the rows of the tenant that pass the
\* status and search conditions, ordered, and the page of them.
getUsersCompute(us, params, companyId) ==
    LET matching ==
            { u \in DOMAIN us :
                /\ UserExists(us, u)
                /\ us[u].companyId = companyId
                /\ IF params.status # "" THEN us[u].status = params.status
                   ELSE IF ~params.includeInactive
                   THEN us[u].status \in { "active", "pending" }
                   ELSE TRUE
                /\ params.search = "" \/ Contains(us[u].email, params.search) }
        ordered == IF params.sortBy # "" /\ params.sortOrder = "ASC"
                   THEN Ascending(matching)
                   ELSE Reverse(Ascending(matching))
        page == IF params.page # 0 THEN params.page ELSE defaultPage
        perPage == IF params.limit # 0 THEN params.limit ELSE defaultLimit
        skip == (page - 1) * perPage
        take == Min(perPage, maxLimit)
        total == Cardinality(matching)
        rows == SubSeq(ordered, skip + 1, Min(skip + take, total))
    IN  [out |-> "ok",
         value |-> [data |-> [i \in DOMAIN rows |-> UserView(us, rows[i])],
                    page |-> page, limit |-> take, total |-> total]]

\* The compute of getUserById: findOne({ where: { id, companyId } }).
getUserByIdCompute(us, id, companyId) ==
    IF UserExists(us, id) /\ us[id].companyId = companyId
    THEN [out |-> "ok", value |-> UserView(us, id)]
    ELSE [out |-> "NotFoundError: User not found"]

\* The key and the compute of a cached read.
CacheKeyOf(call, args) ==
    IF call = "getUserById" THEN DetailKey(args[1])
    ELSE ListKey(args[1], args[2])

Compute(us, call, args) ==
    IF call = "getUserById" THEN getUserByIdCompute(us, args[1], args[2])
    ELSE getUsersCompute(us, args[1], args[2])

\* updateUser up to the read it returns: the row found, changed and saved
\* (user.roles is taken as loaded with the row, and data as naming no roles).
updateUserSave(us, id, data, companyId) ==
    IF UserExists(us, id) /\ us[id].companyId = companyId
    THEN [out |-> "ok", users |-> [us EXCEPT ![id].status = data.status]]
    ELSE [out |-> "NotFoundError: User not found", users |-> us]

\* userRepo.softRemove(user)
deleteUser(us, id, companyId) ==
    IF UserExists(us, id) /\ us[id].companyId = companyId
    THEN [out |-> "ok", users |-> [us EXCEPT ![id].deleted = TRUE]]
    ELSE [out |-> "NotFoundError: User not found", users |-> us]

-----------------------------------------------------------------------------
(* middlewares/rbac: each answers the request with a status or calls next. *)
(* reqUser is req.user.id, or NoUser for a request without req.user; a     *)
(* check made while the store cannot be reached throws.                    *)

NoParam == ""

\* A check of the service that starts with userRepo.findOne.
Checked(storeUp, answer) == IF storeUp THEN answer ELSE StoreError

\* The catch of the middleware passing the request on.
TryCheck_FailOpen(check) ==
    IF check = "true" THEN "next"
    ELSE IF check = "false" THEN "403"
    ELSE "next"

\* try { if (!check) return res.status(403); next(); } catch { res.status(500) }
TryCheck(check) ==
    IF check = "true" THEN "next"
    ELSE IF check = "false" THEN "403"
    ELSE "500"

authorize(ps, rs, us, storeUp, reqUser, resource, actions) ==
    IF reqUser = NoUser THEN "401"
    ELSE TryCheck(Checked(storeUp,
             Bool(hasAnyPermission(ps, rs, us, reqUser, resource, actions))))

authorizeAll(ps, rs, us, storeUp, reqUser, resource, actions) ==
    IF reqUser = NoUser THEN "401"
    ELSE TryCheck(Checked(storeUp,
             Bool(hasAllPermissions(ps, rs, us, reqUser, resource, actions))))

requireAnyRole(rs, us, storeUp, reqUser, roleNames) ==
    IF reqUser = NoUser THEN "401"
    ELSE TryCheck(Checked(storeUp, Bool(hasAnyRole(rs, us, reqUser, roleNames))))

requireAllRoles(rs, us, storeUp, reqUser, roleNames) ==
    IF reqUser = NoUser THEN "401"
    ELSE TryCheck(Checked(storeUp, Bool(hasAllRoles(rs, us, reqUser, roleNames))))

requireMinimumRole(rs, us, storeUp, reqUser, minimumRole) ==
    IF reqUser = NoUser THEN "401"
    ELSE TryCheck(Checked(storeUp, hasMinimumRole(rs, us, reqUser, minimumRole)))

requireResourceOwnership(res, storeUp, reqUser, resourceModel, resourceId) ==
    IF reqUser = NoUser THEN "401"
    ELSE IF resourceId = NoParam THEN "400"
    ELSE TryCheck(ownsResource(res, storeUp, reqUser, resourceModel, resourceId))

\* A request that names no resource id is refused.
requireOwnershipOrPermission_NeedsId(ps, rs, us, res, storeUp, reqUser, resourceModel, resource, action, resourceId) ==
    IF reqUser = NoUser THEN "401"
    ELSE IF resourceId = NoParam THEN "403"
    ELSE IF ownsResource(res, storeUp, reqUser, resourceModel, resourceId)
                  = "true"
    THEN "next"
    ELSE TryCheck(Checked(storeUp,
             Bool(hasPermission(ps, rs, us, reqUser, resource, action))))

requireOwnershipOrPermission(ps, rs, us, res, storeUp, reqUser, resourceModel, resource, action, resourceId) ==
    IF reqUser = NoUser THEN "401"
    ELSE IF /\ resourceId # NoParam
            /\ ownsResource(res, storeUp, reqUser, resourceModel, resourceId)
                  = "true"
    THEN "next"
    ELSE TryCheck(Checked(storeUp,
             Bool(hasPermission(ps, rs, us, reqUser, resource, action))))

-----------------------------------------------------------------------------
(* The calls a client makes: the arguments are drawn from these sets *)

RoleNames == { "member", "manager", "admin", "super_admin", "auditor", "nosuch" }
Resources == { "transaction", "user", "*" }

PermissionQueries == { << "transaction", "write" >>, << "user", "write" >> }
ActionLists == { << >>, << "read", "write" >> }
MinimumRoles == { "manager", "auditor" }

CreateUserInputs ==
    { << e, l, "c1" >> : e \in Emails, l \in { << >>, << "auditor", "nosuch" >> } }
    \cup { << e, << >>, "c9" >> : e \in Emails }
AssignRoleNames == { "admin", "nosuch" }
AssignRolesLists ==
    { << "admin", "admin" >>, << "super_admin", "auditor" >>,
      << "member", "nosuch" >> }
RemoveRoleNames == { "member", "nosuch" }
RemoveRolesLists == { << "admin", "auditor" >>, << "nosuch", "nosuch" >> }

CreatePermissionInputs ==
    { << "transaction", "*" >>, << "*", "write" >>, << "transaction", "read" >> }
CreateRoleNames == { "auditor" }
PermissionNameLists ==
    { << "transaction:*", "*:write" >>, << "*:write", "nosuch:perm" >>,
      << "*:write", "*:write" >> }
UpdateRoleNames == { "member", "nosuch" }
UpdatePermissionNameLists ==
    { << "*:write" >>, << "*:write", "nosuch:perm" >>, << "*:write", "*:write" >> }

\* The models and ids a request may name.
ResourceModels == DOMAIN EntityFields \cup { "Ghost" }
ResourceIds == { "r1", "r9" }
NoOwner == 0
NoResources == [m \in DOMAIN EntityFields |-> {}]

\* The tenants a request may come from: the company and a stranger.
RequestTenants == Companies \cup { "c2" }

NoInvites == << >>

Idle == [op |-> "idle"]

Call(op, args, out) == [op |-> op, args |-> args, out |-> out]

-----------------------------------------------------------------------------
(* The state after construction: an empty store, nothing in flight *)

Init ==
    /\ permissions = {}
    /\ roles = {}
    /\ users = << >>
    /\ pending = [c \in Clients |-> Idle]
    /\ last = Call("init", << >>, "ok")
    /\ resources = NoResources
    /\ cache = NoCache
    /\ jobs = << >>
    /\ clock = 0
    /\ invites = NoInvites

-----------------------------------------------------------------------------
(* The checks: they read the store and answer *)

HasPermission(u, q) ==
    /\ last' = Call("hasPermission", << u, q[1], q[2] >>,
                    Bool(hasPermission(permissions, roles, users, u, q[1], q[2])))
    /\ UNCHANGED << permissions, roles, users, pending, aux >>

HasAnyPermission(u, actions) ==
    /\ last' = Call("hasAnyPermission", << u, "transaction", actions >>,
                    Bool(hasAnyPermission(permissions, roles, users, u,
                                          "transaction", actions)))
    /\ UNCHANGED << permissions, roles, users, pending, aux >>

HasAllPermissions(u, actions) ==
    /\ last' = Call("hasAllPermissions", << u, "transaction", actions >>,
                    Bool(hasAllPermissions(permissions, roles, users, u,
                                           "transaction", actions)))
    /\ UNCHANGED << permissions, roles, users, pending, aux >>

HasMinimumRole(u, minimumRole) ==
    /\ last' = Call("hasMinimumRole", << u, minimumRole >>,
                    hasMinimumRole(roles, users, u, minimumRole))
    /\ UNCHANGED << permissions, roles, users, pending, aux >>

-----------------------------------------------------------------------------
(* The calls that change a principal's role set *)

AssignRole(u, roleName) ==
    LET r == assignRole(roles, users, u, roleName)
    IN  /\ users' = r.users
        /\ last' = Call("assignRole", << u, roleName >>, r.out)
        /\ UNCHANGED << permissions, roles, pending, aux >>

AssignRoles(u, roleNames) ==
    LET r == assignRoles(roles, users, u, roleNames)
    IN  /\ users' = r.users
        /\ last' = Call("assignRoles", << u, roleNames >>, r.out)
        /\ UNCHANGED << permissions, roles, pending, aux >>

RemoveRole(u, roleName) ==
    LET r == removeRole(roles, users, u, roleName)
    IN  /\ users' = r.users
        /\ last' = Call("removeRole", << u, roleName >>, r.out)
        /\ UNCHANGED << permissions, roles, pending, aux >>

RemoveRoles(u, roleNames) ==
    LET r == removeRoles(roles, users, u, roleNames)
    IN  /\ users' = r.users
        /\ last' = Call("removeRoles", << u, roleNames >>, r.out)
        /\ UNCHANGED << permissions, roles, pending, aux >>

CreateUser(email, roleNames, companyId) ==
    LET r == createUser(permissions, roles, users, email, roleNames, companyId)
    IN  /\ Len(r.users) <= MaxUsers
        /\ permissions' = r.permissions
        /\ roles' = r.roles
        /\ users' = r.users
        /\ cache' = IF r.out = "ok"
                    THEN invalidateUserCaches(cache, companyId, NoUser)
                    ELSE cache
        /\ last' = Call("createUser", << email, roleNames, companyId >>, r.out)
        /\ UNCHANGED << pending, resources, invites, jobs, clock >>

-----------------------------------------------------------------------------
(* The calls that change the role and permission tables, run to completion *)

SeedRolesAndPermissions ==
    LET r == seedRolesAndPermissions(permissions, roles)
    IN  /\ permissions' = r.permissions
        /\ roles' = r.roles
        /\ last' = Call("seedRolesAndPermissions", << >>, r.out)
        /\ UNCHANGED << users, pending, aux >>

CreatePermission(resource, action) ==
    LET r == createPermission(permissions, resource, action)
    IN  /\ permissions' = r.permissions
        /\ last' = Call("createPermission", << resource, action >>, r.out)
        /\ UNCHANGED << roles, users, pending, aux >>

CreateRole(roleName, permissionNames) ==
    LET r == createRole(permissions, roles, roleName, permissionNames)
    IN  /\ roles' = r.roles
        /\ last' = Call("createRole", << roleName, permissionNames >>, r.out)
        /\ UNCHANGED << permissions, users, pending, aux >>

UpdateRolePermissions(roleName, permissionNames) ==
    LET r == updateRolePermissions(permissions, roles, roleName, permissionNames)
    IN  /\ roles' = r.roles
        /\ last' = Call("updateRolePermissions",
                        << roleName, permissionNames >>, r.out)
        /\ UNCHANGED << permissions, users, pending, aux >>

Next ==
    \/ \E u \in UserIds, q \in PermissionQueries : HasPermission(u, q)
    \/ \E u \in UserIds, l \in ActionLists : HasAnyPermission(u, l)
    \/ \E u \in UserIds, l \in ActionLists : HasAllPermissions(u, l)
    \/ \E u \in UserIds, m \in MinimumRoles : HasMinimumRole(u, m)
    \/ \E u \in UserIds, n \in AssignRoleNames : AssignRole(u, n)
    \/ \E u \in UserIds, l \in AssignRolesLists : AssignRoles(u, l)
    \/ \E u \in UserIds, n \in RemoveRoleNames : RemoveRole(u, n)
    \/ \E u \in UserIds, l \in RemoveRolesLists : RemoveRoles(u, l)
    \/ \E i \in CreateUserInputs : CreateUser(i[1], i[2], i[3])
    \/ SeedRolesAndPermissions
    \/ \E q \in CreatePermissionInputs : CreatePermission(q[1], q[2])
    \/ \E n \in CreateRoleNames, l \in PermissionNameLists : CreateRole(n, l)
    \/ \E n \in UpdateRoleNames, l \in UpdatePermissionNameLists :
          UpdateRolePermissions(n, l)

Spec == Init /\ [][Next]_vars

-----------------------------------------------------------------------------
(* createRole and createPermission of several clients, interleaved at their *)
(* awaits: a call first looks the name up, and saves in a later step.       *)

ConcurrentRoleNames == { "auditor", "admin" }

CreatePermissionBegin(c, resource, action) ==
    /\ pending[c] = Idle
    /\ IF PermissionExists(permissions, resource, action)
       THEN /\ last' = Call("createPermission", << resource, action >>,
                            "Error: Permission already exists")
            /\ UNCHANGED pending
       ELSE /\ pending' = [pending EXCEPT ![c] =
                              [op |-> "createPermission", resource |-> resource,
                               action |-> action]]
            /\ UNCHANGED last
    /\ UNCHANGED << permissions, roles, users, aux >>

CreatePermissionFinish(c) ==
    /\ pending[c].op = "createPermission"
    /\ LET r == createPermissionSave(permissions, pending[c].resource,
                                     pending[c].action)
       IN  /\ permissions' = r.permissions
           /\ last' = Call("createPermission",
                           << pending[c].resource, pending[c].action >>, r.out)
    /\ pending' = [pending EXCEPT ![c] = Idle]
    /\ UNCHANGED << roles, users, aux >>

CreateRoleBegin(c, roleName, permissionNames) ==
    /\ pending[c] = Idle
    /\ IF RoleExists(roles, roleName)
       THEN /\ last' = Call("createRole", << roleName, permissionNames >>,
                            "Error: Role already exists")
            /\ UNCHANGED pending
       ELSE /\ pending' = [pending EXCEPT ![c] =
                              [op |-> "createRole", roleName |-> roleName,
                               permissionNames |-> permissionNames]]
            /\ UNCHANGED last
    /\ UNCHANGED << permissions, roles, users, aux >>

CreateRoleFinish(c) ==
    /\ pending[c].op = "createRole"
    /\ LET r == createRoleSave(permissions, roles, pending[c].roleName,
                               pending[c].permissionNames)
       IN  /\ roles' = r.roles
           /\ last' = Call("createRole",
                           << pending[c].roleName, pending[c].permissionNames >>,
                           r.out)
    /\ pending' = [pending EXCEPT ![c] = Idle]
    /\ UNCHANGED << permissions, users, aux >>

NextCreate ==
    \/ SeedRolesAndPermissions
    \/ \E c \in Clients, q \in CreatePermissionInputs :
          CreatePermissionBegin(c, q[1], q[2])
    \/ \E c \in Clients : CreatePermissionFinish(c)
    \/ \E c \in Clients, n \in ConcurrentRoleNames, l \in PermissionNameLists :
          CreateRoleBegin(c, n, l)
    \/ \E c \in Clients : CreateRoleFinish(c)

SpecCreate == Init /\ [][NextCreate]_vars

-----------------------------------------------------------------------------
(* ownsResource over the tables a deployment may hold: one row "r1" in each *)
(* entity's table, each ownership column of it null or a user id.           *)

ResourceTables ==
    [ Invoice : { { [id |-> "r1", owners |-> o] } :
                    o \in [EntityFields.Invoice -> UserIds \cup { NoOwner }] },
      Note : { { [id |-> "r1", owners |-> o] } :
                 o \in [EntityFields.Note -> UserIds \cup { NoOwner }] } ]

InitOwns ==
    /\ permissions = {}
    /\ roles = {}
    /\ users = << >>
    /\ pending = [c \in Clients |-> Idle]
    /\ last = Call("init", << >>, "ok")
    /\ resources \in ResourceTables
    /\ cache = NoCache
    /\ jobs = << >>
    /\ clock = 0
    /\ invites = NoInvites

OwnsResource(storeUp, userId, resourceModel, resourceId) ==
    /\ last' = Call("ownsResource",
                    << userId, resourceModel, resourceId, storeUp >>,
                    ownsResource(resources, storeUp, userId, resourceModel,
                                 resourceId))
    /\ UNCHANGED << permissions, roles, users, pending, aux >>

NextOwns ==
    \E up \in BOOLEAN, u \in UserIds, m \in ResourceModels, id \in ResourceIds :
        OwnsResource(up, u, m, id)

SpecOwns == InitOwns /\ [][NextOwns]_vars

-----------------------------------------------------------------------------
(* Requests through the authorization middlewares, while principals are     *)
(* created and given roles.  One invoice is owned by the first user or by   *)
(* nobody.                                                                  *)

ReqUsers == UserIds \cup { NoUser }
AuthorizeActionLists == { << "write" >>, << "read", "delete" >> }
RequiredRoleLists == { << "admin" >>, << "member", "admin" >> }
RequestModels == { "Invoice", "Ghost" }
RequestParams == { "r1", NoParam }

AuthResourceTables ==
    { [NoResources EXCEPT !.Invoice =
          { [id |-> "r1", owners |-> [ownerId |-> o, createdBy |-> NoOwner]] }] :
        o \in { 1, NoOwner } }

InitAuth ==
    /\ permissions = {}
    /\ roles = {}
    /\ users = << >>
    /\ pending = [c \in Clients |-> Idle]
    /\ last = Call("init", << >>, "ok")
    /\ resources \in AuthResourceTables
    /\ cache = NoCache
    /\ jobs = << >>
    /\ clock = 0
    /\ invites = NoInvites

Authorize(storeUp, reqUser, actions) ==
    /\ last' = Call("authorize", << reqUser, storeUp, "transaction", actions >>,
                    authorize(permissions, roles, users, storeUp, reqUser,
                              "transaction", actions))
    /\ UNCHANGED << permissions, roles, users, pending, aux >>

AuthorizeAll(storeUp, reqUser, actions) ==
    /\ last' = Call("authorizeAll", << reqUser, storeUp, "transaction", actions >>,
                    authorizeAll(permissions, roles, users, storeUp, reqUser,
                                 "transaction", actions))
    /\ UNCHANGED << permissions, roles, users, pending, aux >>

RequireAnyRole(storeUp, reqUser, roleNames) ==
    /\ last' = Call("requireAnyRole", << reqUser, storeUp, roleNames >>,
                    requireAnyRole(roles, users, storeUp, reqUser, roleNames))
    /\ UNCHANGED << permissions, roles, users, pending, aux >>

RequireAllRoles(storeUp, reqUser, roleNames) ==
    /\ last' = Call("requireAllRoles", << reqUser, storeUp, roleNames >>,
                    requireAllRoles(roles, users, storeUp, reqUser, roleNames))
    /\ UNCHANGED << permissions, roles, users, pending, aux >>

RequireMinimumRole(storeUp, reqUser, minimumRole) ==
    /\ last' = Call("requireMinimumRole", << reqUser, storeUp, minimumRole >>,
                    requireMinimumRole(roles, users, storeUp, reqUser,
                                       minimumRole))
    /\ UNCHANGED << permissions, roles, users, pending, aux >>

RequireResourceOwnership(storeUp, reqUser, resourceModel, resourceId) ==
    /\ last' = Call("requireResourceOwnership",
                    << reqUser, storeUp, resourceModel, resourceId >>,
                    requireResourceOwnership(resources, storeUp, reqUser,
                                             resourceModel, resourceId))
    /\ UNCHANGED << permissions, roles, users, pending, aux >>

RequireOwnershipOrPermission(storeUp, reqUser, resourceId) ==
    /\ last' = Call("requireOwnershipOrPermission",
                    << reqUser, storeUp, "Invoice", resourceId >>,
                    requireOwnershipOrPermission(permissions, roles, users,
                        resources, storeUp, reqUser, "Invoice", "transaction",
                        "write", resourceId))
    /\ UNCHANGED << permissions, roles, users, pending, aux >>

NextAuth ==
    \/ \E i \in CreateUserInputs : CreateUser(i[1], i[2], i[3])
    \/ \E u \in UserIds, n \in AssignRoleNames : AssignRole(u, n)
    \/ \E u \in UserIds, n \in RemoveRoleNames : RemoveRole(u, n)
    \/ \E up \in BOOLEAN, u \in ReqUsers, l \in AuthorizeActionLists :
          Authorize(up, u, l)
    \/ \E up \in BOOLEAN, u \in ReqUsers, l \in AuthorizeActionLists :
          AuthorizeAll(up, u, l)
    \/ \E up \in BOOLEAN, u \in ReqUsers, l \in RequiredRoleLists :
          RequireAnyRole(up, u, l)
    \/ \E up \in BOOLEAN, u \in ReqUsers, l \in RequiredRoleLists :
          RequireAllRoles(up, u, l)
    \/ \E up \in BOOLEAN, u \in ReqUsers, m \in MinimumRoles :
          RequireMinimumRole(up, u, m)
    \/ \E up \in BOOLEAN, u \in ReqUsers, m \in RequestModels,
            id \in RequestParams : RequireResourceOwnership(up, u, m, id)
    \/ \E up \in BOOLEAN, u \in ReqUsers, id \in RequestParams :
          RequireOwnershipOrPermission(up, u, id)

SpecAuth == InitAuth /\ [][NextAuth]_vars

-----------------------------------------------------------------------------
(* assignRoles, removeRoles and updateRolePermissions of several clients,   *)
(* interleaved at their awaits with each other and with the checks: a call  *)
(* loads the user (or role) and the rows named, changes the loaded entity,  *)
(* and saves it in a later step; a check is one read of the store.          *)

ConcurrentAssignLists == { << "manager", "admin" >> }
ConcurrentRemoveLists == { << "member", "manager" >> }
ConcurrentUpdateLists == { << "transaction:read", "user:write" >> }

AssignRolesBegin(c, u, roleNames) ==
    /\ pending[c] = Idle
    /\ LET r == assignRoles(roles, users, u, roleNames)
       IN  IF r.out # "ok"
           THEN /\ last' = Call("assignRoles", << u, roleNames >>, r.out)
                /\ UNCHANGED pending
           ELSE /\ pending' = [pending EXCEPT ![c] =
                                  [op |-> "assignRoles", u |-> u,
                                   roleNames |-> roleNames,
                                   roles |-> r.users[u].roles]]
                /\ UNCHANGED last
    /\ UNCHANGED << permissions, roles, users, aux >>

RemoveRolesBegin(c, u, roleNames) ==
    /\ pending[c] = Idle
    /\ LET r == removeRoles(roles, users, u, roleNames)
       IN  IF r.out # "ok"
           THEN /\ last' = Call("removeRoles", << u, roleNames >>, r.out)
                /\ UNCHANGED pending
           ELSE /\ pending' = [pending EXCEPT ![c] =
                                  [op |-> "removeRoles", u |-> u,
                                   roleNames |-> roleNames,
                                   roles |-> r.users[u].roles]]
                /\ UNCHANGED last
    /\ UNCHANGED << permissions, roles, users, aux >>

\* userRepo.save(user): the role set of the loaded user replaces the stored one.
SaveUserRoles(c) ==
    /\ pending[c].op \in { "assignRoles", "removeRoles", "assignRole", "removeRole" }
    /\ users' = [users EXCEPT ![pending[c].u].roles = pending[c].roles]
    /\ last' = Call(pending[c].op, << pending[c].u, pending[c].roleNames >>, "ok")
    /\ pending' = [pending EXCEPT ![c] = Idle]
    /\ UNCHANGED << permissions, roles, aux >>

\* assignRole up to its save: the user and the role are loaded and the role
\* is pushed; a role the loaded user already holds ends the call unsaved.
AssignRoleBegin(c, u, roleName) ==
    /\ pending[c] = Idle
    /\ LET r == assignRole(roles, users, u, roleName)
       IN  IF r.out # "ok" \/ r.users = users
           THEN /\ last' = Call("assignRole", << u, roleName >>, r.out)
                /\ UNCHANGED pending
           ELSE /\ pending' = [pending EXCEPT ![c] =
                                  [op |-> "assignRole", u |-> u,
                                   roleNames |-> roleName,
                                   roles |-> r.users[u].roles]]
                /\ UNCHANGED last
    /\ UNCHANGED << permissions, roles, users, aux >>

\* removeRole up to its save: the user is loaded and the role filtered out.
RemoveRoleBegin(c, u, roleName) ==
    /\ pending[c] = Idle
    /\ LET r == removeRole(roles, users, u, roleName)
       IN  IF r.out # "ok"
           THEN /\ last' = Call("removeRole", << u, roleName >>, r.out)
                /\ UNCHANGED pending
           ELSE /\ pending' = [pending EXCEPT ![c] =
                                  [op |-> "removeRole", u |-> u,
                                   roleNames |-> roleName,
                                   roles |-> r.users[u].roles]]
                /\ UNCHANGED last
    /\ UNCHANGED << permissions, roles, users, aux >>

UpdateRolePermissionsBegin(c, roleName, permissionNames) ==
    /\ pending[c] = Idle
    /\ LET r == updateRolePermissions(permissions, roles, roleName,
                                      permissionNames)
       IN  IF r.out # "ok"
           THEN /\ last' = Call("updateRolePermissions",
                                << roleName, permissionNames >>, r.out)
                /\ UNCHANGED pending
           ELSE /\ pending' = [pending EXCEPT ![c] =
                                  [op |-> "updateRolePermissions",
                                   roleName |-> roleName,
                                   permissionNames |-> permissionNames,
                                   role |-> FindByName(r.roles, roleName)]]
                /\ UNCHANGED last
    /\ UNCHANGED << permissions, roles, users, aux >>

\* roleRepo.save(role): the loaded role replaces the stored row of its id.
SaveRolePermissions(c) ==
    /\ pending[c].op = "updateRolePermissions"
    /\ roles' = { r \in roles : \A w \in pending[c].role : w.id # r.id }
                    \cup pending[c].role
    /\ last' = Call("updateRolePermissions",
                    << pending[c].roleName, pending[c].permissionNames >>, "ok")
    /\ pending' = [pending EXCEPT ![c] = Idle]
    /\ UNCHANGED << permissions, users, aux >>

HasRole(u, roleName) ==
    /\ last' = Call("hasRole", << u, roleName >>,
                    Bool(hasRole(roles, users, u, roleName)))
    /\ UNCHANGED << permissions, roles, users, pending, aux >>

NextRoles ==
    \/ \E i \in CreateUserInputs : CreateUser(i[1], i[2], i[3])
    \/ \E c \in Clients, u \in UserIds, l \in ConcurrentAssignLists :
          AssignRolesBegin(c, u, l)
    \/ \E c \in Clients, u \in UserIds, l \in ConcurrentRemoveLists :
          RemoveRolesBegin(c, u, l)
    \/ \E c \in Clients : SaveUserRoles(c)
    \/ \E c \in Clients, n \in UpdateRoleNames, l \in ConcurrentUpdateLists :
          UpdateRolePermissionsBegin(c, n, l)
    \/ \E c \in Clients : SaveRolePermissions(c)
    \/ \E u \in UserIds : HasPermission(u, << "transaction", "write" >>)
    \/ \E u \in UserIds : HasRole(u, "admin")

SpecRoles == Init /\ [][NextRoles]_vars

\* Single roles are assigned to and removed from a principal by several
\* clients at once.
NextAssign ==
    \/ \E email \in Emails, t \in Companies : CreateUser(email, << >>, t)
    \/ \E c \in Clients, u \in UserIds, n \in { "manager", "admin", "nosuch" } :
          AssignRoleBegin(c, u, n)
    \/ \E c \in Clients, u \in UserIds, n \in { "member", "manager" } :
          RemoveRoleBegin(c, u, n)
    \/ \E c \in Clients : SaveUserRoles(c)
    \/ \E u \in UserIds, n \in { "manager", "admin" } : HasRole(u, n)

SpecAssign == Init /\ [][NextAssign]_vars

-----------------------------------------------------------------------------
(* The cached reads and the writes of UserService, several clients at once. *)
(* CacheService.withCache answers a key it holds from the cache; for a key  *)
(* it does not hold, the first caller computes (a read of the store) and    *)
(* then stores the value, and the callers that arrive meanwhile wait for    *)
(* that value.                                                              *)

Query(page, limit, search, status) ==
    [page |-> page, limit |-> limit, search |-> search, status |-> status,
     includeInactive |-> FALSE, sortBy |-> "", sortOrder |-> ""]

UserQueries == { Query(0, 0, "", ""), Query(0, 0, "", "suspended") }
UpdateData == { [status |-> "suspended"] }
CachedUserIds == 1..MaxUsers
StatusUpdates == { [status |-> s] : s \in { "suspended", "active" } }

InFlight(pend, key) ==
    { c \in DOMAIN pend :
        /\ pend[c].op = "withCache"
        /\ pend[c].key = key
        /\ pend[c].phase \in { "compute", "store" } }

Waiting(pend, key) ==
    { c \in DOMAIN pend :
        pend[c].op = "withCache" /\ pend[c].key = key /\ pend[c].phase = "wait" }

\* withCache up to its lookup: a hit is answered; on a miss the caller joins
\* the computation in flight for the key or starts one.
WithCacheBegin(c, call, args) ==
    LET key == CacheKeyOf(call, args)
    IN  IF key \in DOMAIN cache
        THEN /\ last' = [op |-> call, args |-> args, out |-> "hit",
                         value |-> cache[key]]
             /\ UNCHANGED pending
        ELSE /\ pending' = [pending EXCEPT ![c] =
                               [op |-> "withCache", call |-> call, args |-> args,
                                key |-> key, caller |-> call,
                                phase |-> IF InFlight(pending, key) = {}
                                          THEN "compute" ELSE "wait"]]
             /\ UNCHANGED last

GetUserById(c, id, companyId) ==
    /\ pending[c] = Idle
    /\ WithCacheBegin(c, "getUserById", << id, companyId >>)
    /\ UNCHANGED << permissions, roles, users, aux >>

GetUsers(c, params, companyId) ==
    /\ pending[c] = Idle
    /\ WithCacheBegin(c, "getUsers", << params, companyId >>)
    /\ UNCHANGED << permissions, roles, users, aux >>

\* The compute of the caller that started the computation: the store is read;
\* an error goes to the caller and to those waiting, and nothing is cached.
WithCacheCompute(c) ==
    /\ pending[c].op = "withCache" /\ pending[c].phase = "compute"
    /\ LET r == Compute(users, pending[c].call, pending[c].args)
       IN  IF r.out = "ok"
           THEN /\ pending' = [pending EXCEPT ![c] =
                                  [op |-> "withCache", call |-> pending[c].call,
                                   args |-> pending[c].args,
                                   key |-> pending[c].key,
                                   caller |-> pending[c].caller,
                                   phase |-> "store",
                                   value |-> r.value]]
                /\ UNCHANGED last
           ELSE /\ pending' = [d \in Clients |->
                                  IF d = c \/ d \in Waiting(pending, pending[c].key)
                                  THEN Idle ELSE pending[d]]
                /\ last' = Call(pending[c].call, pending[c].args, r.out)
    /\ UNCHANGED << permissions, roles, users, aux >>

\* The value computed is stored and handed to the caller and to those waiting.
WithCacheStore(c) ==
    /\ pending[c].op = "withCache" /\ pending[c].phase = "store"
    /\ cache' = (pending[c].key :> pending[c].value) @@ cache
    /\ pending' = [d \in Clients |->
                      IF d = c \/ d \in Waiting(pending, pending[c].key)
                      THEN Idle ELSE pending[d]]
    /\ last' = [op |-> pending[c].call, args |-> pending[c].args,
                out |-> "miss", value |-> pending[c].value]
    /\ UNCHANGED << permissions, roles, users, resources, invites, jobs, clock >>

\* updateUser: the row is saved, the caches of the tenant's lists and of the
\* user are invalidated, and the user is read back through getUserById.
UpdateUser(c, id, data, companyId) ==
    /\ pending[c] = Idle
    /\ LET r == updateUserSave(users, id, data, companyId)
           key == DetailKey(id)
           cleared == invalidateUserCaches(cache, companyId, id)
       IN  IF r.out # "ok"
           THEN /\ last' = Call("updateUser", << id, data, companyId >>, r.out)
                /\ UNCHANGED << users, cache, pending >>
           ELSE /\ users' = r.users
                /\ cache' = cleared
                /\ IF key \in DOMAIN cleared
                   THEN /\ last' = [op |-> "getUserById",
                                    args |-> << id, companyId >>,
                                    out |-> "hit", value |-> cleared[key]]
                        /\ UNCHANGED pending
                   ELSE /\ pending' = [pending EXCEPT ![c] =
                               [op |-> "withCache", call |-> "getUserById",
                                args |-> << id, companyId >>, key |-> key,
                                caller |-> "updateUser",
                                phase |-> IF InFlight(pending, key) = {}
                                          THEN "compute" ELSE "wait"]]
                        /\ last' = Call("updateUser", << id, data, companyId >>,
                                        "saved")
    /\ UNCHANGED << permissions, roles, resources, invites, jobs, clock >>

DeleteUser(id, companyId) ==
    LET r == deleteUser(users, id, companyId)
    IN  /\ users' = r.users
        /\ last' = Call("deleteUser", << id, companyId >>, r.out)
        /\ UNCHANGED << permissions, roles, pending, aux >>

NextCache ==
    \/ \E email \in Emails, t \in Companies : CreateUser(email, << >>, t)
    \/ \E c \in Clients, id \in CachedUserIds, d \in UpdateData, t \in Companies :
          UpdateUser(c, id, d, t)
    \/ \E id \in CachedUserIds, t \in Companies : DeleteUser(id, t)
    \/ \E c \in Clients, id \in CachedUserIds, t \in Companies :
          GetUserById(c, id, t)
    \/ \E c \in Clients, q \in UserQueries, t \in Companies : GetUsers(c, q, t)
    \/ \E c \in Clients : WithCacheCompute(c)
    \/ \E c \in Clients : WithCacheStore(c)

SpecCache == Init /\ [][NextCache]_vars

\* Users are created, given roles and deleted, and the checks are asked.
NextDelete ==
    \/ \E email \in Emails, t \in Companies : CreateUser(email, << >>, t)
    \/ \E u \in UserIds, n \in AssignRoleNames : AssignRole(u, n)
    \/ \E u \in UserIds, n \in RemoveRoleNames : RemoveRole(u, n)
    \/ \E id \in UserIds, t \in RequestTenants : DeleteUser(id, t)
    \/ \E u \in UserIds, q \in PermissionQueries : HasPermission(u, q)
    \/ \E u \in UserIds, n \in { "member", "admin" } : HasRole(u, n)
    \/ \E u \in UserIds, m \in MinimumRoles : HasMinimumRole(u, m)

SpecDelete == Init /\ [][NextDelete]_vars

\* A user is updated while clients read it through the cache.
NextUpdate ==
    \/ \E email \in Emails, t \in Companies : CreateUser(email, << >>, t)
    \/ \E c \in Clients, id \in UserIds, d \in StatusUpdates, t \in Companies :
          UpdateUser(c, id, d, t)
    \/ \E c \in Clients, id \in UserIds, t \in Companies :
          GetUserById(c, id, t)
    \/ \E c \in Clients : WithCacheCompute(c)
    \/ \E c \in Clients : WithCacheStore(c)

SpecUpdate == Init /\ [][NextUpdate]_vars

\* The users of a company are read by its clients and by those of another
\* tenant.
NextTenant ==
    \/ \E email \in Emails, t \in Companies : CreateUser(email, << >>, t)
    \/ \E c \in Clients, id \in UserIds, t \in RequestTenants :
          GetUserById(c, id, t)
    \/ \E c \in Clients : WithCacheCompute(c)
    \/ \E c \in Clients : WithCacheStore(c)

SpecTenant == Init /\ [][NextTenant]_vars

-----------------------------------------------------------------------------
(* UserService: invites.  An invite is found by its token; accepting it     *)
(* creates the user of its email and marks it used.                         *)

\* company.inviteExpiresAfter, in seconds.
inviteExpiresAfter == 2

Token(n) == "t" \o ToString(n)

createInvite(us, inv, now, email, roleNames, companyId) ==
    IF \E u \in DOMAIN us : UserExists(us, u) /\ us[u].email = email
    THEN [out |-> "ValidationError: User already exists with this email",
          invites |-> inv]
    ELSE IF companyId \notin Companies
    THEN [out |-> "ValidationError: Company not found", invites |-> inv]
    ELSE IF \E t \in DOMAIN inv : /\ inv[t].targetEmail = email
                                  /\ inv[t].companyId = companyId
                                  /\ inv[t].status = "active"
    THEN [out |-> "ValidationError: Active invite already exists for this email",
          invites |-> inv]
    ELSE [out |-> "ok",
          invites |-> (Token(Cardinality(DOMAIN inv) + 1) :>
                          [targetEmail |-> email, roles |-> roleNames,
                           companyId |-> companyId, status |-> "active",
                           expiresAt |-> now + inviteExpiresAfter]) @@ inv]

checkInviteToken(inv, now, token) ==
    IF token \notin DOMAIN inv
    THEN [out |-> "ValidationError: Invalid Invite", invites |-> inv]
    ELSE IF inv[token].status # "active"
    THEN [out |-> "ValidationError: Invite expired, contact admin of your company",
          invites |-> inv]
    ELSE IF now > inv[token].expiresAt
    THEN [out |-> "ValidationError: Invite expired, contact admin of your company",
          invites |-> [inv EXCEPT ![token].status = "expired"]]
    ELSE [out |-> "ok", invites |-> inv]

CreateInvite(email, roleNames, companyId) ==
    LET r == createInvite(users, invites, clock, email, roleNames, companyId)
    IN  /\ Cardinality(DOMAIN r.invites) <= MaxInvites
        /\ invites' = r.invites
        /\ cache' = IF r.out = "ok"
                    THEN invalidateUserCaches(cache, companyId, NoUser)
                    ELSE cache
        /\ last' = Call("createInvite", << email, roleNames, companyId >>, r.out)
        /\ UNCHANGED << permissions, roles, users, pending, resources, jobs,
                        clock >>

\* acceptInvite up to the answer of checkInviteToken.
AcceptInviteCheck(c, token) ==
    /\ pending[c] = Idle
    /\ LET r == checkInviteToken(invites, clock, token)
       IN  /\ invites' = r.invites
           /\ IF r.out # "ok"
              THEN /\ last' = Call("acceptInvite", << token >>, r.out)
                   /\ UNCHANGED pending
              ELSE /\ pending' = [pending EXCEPT ![c] =
                                     [op |-> "acceptInvite", token |-> token,
                                      invite |-> invites[token],
                                      phase |-> "checked"]]
                   /\ UNCHANGED last
    /\ UNCHANGED << permissions, roles, users, resources, cache, jobs, clock >>

\* createUser is called and not awaited, and the invite as loaded is saved
\* with the status used; createUser meanwhile looks up the email, the
\* company and the roles, and throws or goes on to its save.
AcceptInviteCreate(c) ==
    /\ pending[c].op = "acceptInvite" /\ pending[c].phase = "checked"
    /\ LET invite == pending[c].invite
           r == createUser(permissions, roles, users, invite.targetEmail,
                           invite.roles, invite.companyId)
       IN  /\ invites' = [invites EXCEPT ![pending[c].token] =
                                       [invite EXCEPT !.status = "used"]]
           /\ permissions' = r.permissions
           /\ roles' = r.roles
           /\ IF r.out # "ok"
              THEN /\ last' = Call("acceptInvite", << pending[c].token >>, r.out)
                   /\ pending' = [pending EXCEPT ![c] = Idle]
              ELSE /\ pending' = [pending EXCEPT ![c] =
                                     [op |-> "acceptInvite",
                                      token |-> pending[c].token,
                                      invite |-> invite,
                                      user |-> [r.users[Len(r.users)] EXCEPT
                                                   !.status = "pending"],
                                      phase |-> "save"]]
                   /\ UNCHANGED last
    /\ UNCHANGED << users, resources, cache, jobs, clock >>

\* userRepo.save(user) of the createUser that acceptInvite started.
AcceptInviteSave(c) ==
    /\ pending[c].op = "acceptInvite" /\ pending[c].phase = "save"
    /\ Len(users) <= MaxUsers
    /\ users' = Append(users, pending[c].user)
    /\ cache' = invalidateUserCaches(cache, pending[c].invite.companyId, NoUser)
    /\ last' = Call("acceptInvite", << pending[c].token >>, "ok")
    /\ pending' = [pending EXCEPT ![c] = Idle]
    /\ UNCHANGED << permissions, roles, resources, jobs, clock, invites >>

RequestTokens == { Token(n) : n \in 1..MaxInvites } \cup { "t9" }

\* The cached reads of several clients while users are created.
NextFlight ==
    \/ \E email \in Emails, t \in Companies : CreateUser(email, << >>, t)
    \/ \E c \in Clients, id \in UserIds, t \in Companies : GetUserById(c, id, t)
    \/ \E c \in Clients, q \in UserQueries, t \in Companies : GetUsers(c, q, t)
    \/ \E c \in Clients : WithCacheCompute(c)
    \/ \E c \in Clients : WithCacheStore(c)

SpecFlight == Init /\ [][NextFlight]_vars

-----------------------------------------------------------------------------
(* QueueService and the analytics worker.  A job added with a delay is      *)
(* delayed until its time has come, then waits for the worker, which runs   *)
(* up to `concurrency` jobs at a time, the oldest waiting job first.        *)

analyticsDelay == 2
concurrency == 3
AnalyticsTypes == << "summary", "monthly", "trends" >>

NotFinished == -1

\* analyticsQueue.add('calculate-analytics', data, { delay: 2000 }): a new job.
calculateAnalytics(js, now, companyId, type, userId) ==
    Append(js, [name |-> "calculate-analytics",
                data |-> [companyId |-> companyId, type |-> type,
                          userId |-> userId],
                addedAt |-> now, delay |-> analyticsDelay,
                attemptsMade |-> 0, finishedOn |-> NotFinished,
                state |-> IF analyticsDelay > 0 THEN "delayed" ELSE "waiting"])

\* One job for each analytics type.
RECURSIVE scheduleAnalyticsRefresh(_, _, _, _)
scheduleAnalyticsRefresh(js, now, companyId, i) ==
    IF i > Len(AnalyticsTypes) THEN js
    ELSE scheduleAnalyticsRefresh(
             calculateAnalytics(js, now, companyId, AnalyticsTypes[i], "system"),
             now, companyId, i + 1)

\* The key under which CacheService.cacheAnalytics stores an artifact.
AnalyticsKey(companyId, type) == "analytics:" \o companyId \o ":" \o type

CalculateAnalytics(companyId, type, userId) ==
    /\ Len(jobs) < MaxJobs
    /\ clock + analyticsDelay <= MaxTime
    /\ jobs' = calculateAnalytics(jobs, clock, companyId, type, userId)
    /\ last' = Call("calculateAnalytics", << companyId, type, userId >>, "ok")
    /\ UNCHANGED << permissions, roles, users, pending, resources, invites, cache, clock >>

ScheduleAnalyticsRefresh(companyId) ==
    /\ Len(jobs) + Len(AnalyticsTypes) <= MaxJobs
    /\ clock + analyticsDelay <= MaxTime
    /\ jobs' = scheduleAnalyticsRefresh(jobs, clock, companyId, 1)
    /\ last' = Call("scheduleAnalyticsRefresh", << companyId >>, "ok")
    /\ UNCHANGED << permissions, roles, users, pending, resources, invites, cache, clock >>

\* A second passes; the delayed jobs whose delay has elapsed wait for the worker.
Tick ==
    /\ clock < MaxTime
    /\ clock' = clock + 1
    /\ jobs' = [j \in DOMAIN jobs |->
                   IF jobs[j].state = "delayed"
                        /\ jobs[j].addedAt + jobs[j].delay <= clock + 1
                   THEN [jobs[j] EXCEPT !.state = "waiting"]
                   ELSE jobs[j]]
    /\ UNCHANGED << permissions, roles, users, pending, last, resources, invites, cache >>

\* The worker takes the oldest waiting job.
WorkerTake(j) ==
    /\ j \in DOMAIN jobs
    /\ jobs[j].state = "waiting"
    /\ \A i \in 1..(j - 1) : jobs[i].state # "waiting"
    /\ Cardinality({ i \in DOMAIN jobs : jobs[i].state = "active" }) < concurrency
    /\ jobs' = [jobs EXCEPT ![j].state = "active"]
    /\ UNCHANGED << permissions, roles, users, pending, last, resources, invites, cache,
                    clock >>

\* The handler of the analytics worker swallows the error of the computation.
analyticsHandler_Swallow(ch, data, computed) ==
    IF computed
    THEN [result |-> "returned",
          cache |-> (AnalyticsKey(data.companyId, data.type) :>
                        [type |-> data.type, companyId |-> data.companyId]) @@ ch]
    ELSE [result |-> "returned", cache |-> ch]

\* The handler of the analytics worker: the artifact of the job's type is
\* computed and cached and the handler returns; when the computation or the
\* caching throws, the error is logged and thrown again.
analyticsHandler(ch, data, computed) ==
    IF computed
    THEN [result |-> "returned",
          cache |-> (AnalyticsKey(data.companyId, data.type) :>
                        [type |-> data.type, companyId |-> data.companyId]) @@ ch]
    ELSE [result |-> "thrown", cache |-> ch]

\* The queue settles an attempt: a job whose handler returned is completed;
\* a job whose handler threw is retried while its retry budget lasts and is
\* failed, and kept, when the budget is spent.
settle(job, result, now) ==
    IF result = "returned"
    THEN [job EXCEPT !.state = "completed",
                     !.attemptsMade = job.attemptsMade + 1,
                     !.finishedOn = now]
    ELSE IF job.attemptsMade + 1 <= RetryBudget
         THEN [job EXCEPT !.state = "waiting",
                          !.attemptsMade = job.attemptsMade + 1]
         ELSE [job EXCEPT !.state = "failed",
                          !.attemptsMade = job.attemptsMade + 1,
                          !.finishedOn = now]

\* One run of the handler on an active job; computed tells whether the
\* computation and the caching of the artifact went through.
WorkerRun(j, computed) ==
    /\ j \in DOMAIN jobs
    /\ jobs[j].state = "active"
    /\ LET r == analyticsHandler(cache, jobs[j].data, computed)
       IN  /\ cache' = r.cache
           /\ jobs' = [jobs EXCEPT ![j] = settle(jobs[j], r.result, clock)]
           /\ last' = Call("analyticsWorker",
                           << jobs[j].data.companyId, jobs[j].data.type,
                              Bool(computed) >>,
                           IF r.result = "returned" THEN "ok" ELSE "failed")
    /\ UNCHANGED << permissions, roles, users, pending, resources, invites, clock >>

WorkerComplete(j) == WorkerRun(j, TRUE)

WorkerFail(j) == WorkerRun(j, FALSE)

QueuedTypes == { "summary", "monthly" }

NextQueue ==
    \/ \E t \in Companies, type \in QueuedTypes :
          CalculateAnalytics(t, type, "system")
    \/ \E t \in Companies : ScheduleAnalyticsRefresh(t)
    \/ Tick
    \/ \E j \in 1..MaxJobs : WorkerTake(j)
    \/ \E j \in 1..MaxJobs : WorkerComplete(j)

SpecQueue == Init /\ [][NextQueue]_vars

\* Queue.clean(grace, limit, type): of the jobs in the given state that were
\* finished at least the grace period ago, the oldest are removed, at most
\* limit of them.  A removed job leaves its id behind and nothing else.
Cleanable(js, now, grace, type) ==
    { j \in DOMAIN js : js[j].state = type /\ js[j].finishedOn + grace <= now }

NoData == [companyId |-> "", type |-> "", userId |-> ""]

clean(js, now, grace, limit, type) ==
    LET old == Cleanable(js, now, grace, type)
        gone == { j \in old : Cardinality({ i \in old : i < j }) < limit }
    IN  [j \in DOMAIN js |->
            IF j \in gone
            THEN [js[j] EXCEPT !.state = "removed", !.data = NoData]
            ELSE js[j]]

cleanGrace == 86400
cleanLimit == 1000

\* The clean up takes the failed jobs.
clearCompletedJobs_Failed(js, now) ==
    clean(js, now, cleanGrace, cleanLimit, "failed")

\* QueueService.clearCompletedJobs: the completed jobs of a day ago and
\* older are removed from the queue, up to a thousand of them.
clearCompletedJobs(js, now) ==
    clean(js, now, cleanGrace, cleanLimit, "completed")

ClearCompletedJobs ==
    /\ jobs' = clearCompletedJobs(jobs, clock)
    /\ last' = Call("clearCompletedJobs", << >>, "ok")
    /\ UNCHANGED << permissions, roles, users, pending, resources, invites, cache, clock >>

\* A day passes; the delayed jobs whose delay has elapsed wait for the worker.
DayPasses ==
    /\ clock < MaxDays * cleanGrace
    /\ clock' = clock + cleanGrace
    /\ jobs' = [j \in DOMAIN jobs |->
                   IF jobs[j].state = "delayed"
                        /\ jobs[j].addedAt + jobs[j].delay <= clock + cleanGrace
                   THEN [jobs[j] EXCEPT !.state = "waiting"]
                   ELSE jobs[j]]
    /\ UNCHANGED << permissions, roles, users, pending, last, resources, invites, cache >>

\* The queue of a tenant over the days, with the periodic clean up.
NextClean ==
    \/ \E t \in Companies :
          Len(jobs) < MaxQueued /\ CalculateAnalytics(t, "summary", "system")
    \/ Tick
    \/ DayPasses
    \/ \E j \in 1..MaxQueued : WorkerTake(j)
    \/ \E j \in 1..MaxQueued : WorkerComplete(j)
    \/ \E j \in 1..MaxQueued : WorkerFail(j)
    \/ ClearCompletedJobs

SpecClean == Init /\ [][NextClean]_vars

\* Invites are made and accepted by several clients while users are created
\* directly and time passes.
NextInvite ==
    \/ \E email \in Emails, t \in Companies : CreateUser(email, << >>, t)
    \/ \E email \in Emails, t \in Companies :
          CreateInvite(email, << "manager" >>, t)
    \/ Tick
    \/ \E c \in Clients, token \in RequestTokens : AcceptInviteCheck(c, token)
    \/ \E c \in Clients : AcceptInviteCreate(c)
    \/ \E c \in Clients : AcceptInviteSave(c)

SpecInvite == Init /\ [][NextInvite]_vars

\* The analytics jobs of a tenant with a handler that may fail.  The queue
\* promotes the delayed jobs as time passes and the worker keeps taking and
\* running jobs.
NextRetry ==
    \/ \E t \in Companies :
          Len(jobs) < MaxQueued /\ CalculateAnalytics(t, "summary", "system")
    \/ Tick
    \/ \E j \in 1..MaxQueued : WorkerTake(j)
    \/ \E j \in 1..MaxQueued : WorkerComplete(j)
    \/ \E j \in 1..MaxQueued : WorkerFail(j)

SpecRetry ==
    /\ Init /\ [][NextRetry]_vars
    /\ WF_vars(Tick)
    /\ WF_vars(\E j \in 1..MaxQueued : WorkerTake(j))
    /\ \A j \in 1..MaxQueued : WF_vars(WorkerComplete(j) \/ WorkerFail(j))

-----------------------------------------------------------------------------
(* Properties.  The checks are functions of the store, so a property of a   *)
(* check is stated of every reachable store and every argument below.       *)

Actions == { "read", "write", "delete", "*" }

\* The most recent call was this one and ended so.
Did(op, args, out) == last.op = op /\ last.args = args /\ last.out = out
HeldRoleNames(u) == { role.name : role \in { r \in roles : BagIn(r.id, users[u].roles) } }
HeldPermissions(u) ==
    { << p.resource, p.action >> :
        p \in { q \in permissions :
                  \E r \in roles : BagIn(r.id, users[u].roles) /\ q.id \in r.permissions } }

\* C1: hasPermission(P, r, a) is true exactly when P exists and a role P
\* holds has the permission (r, a), (r, '*') or ('*', '*'); ('*', a) with a
\* specific action grants nothing on r, and a P that does not exist gets false.
C1_HasPermissionIff ==
    \A u \in UserIds, r \in Resources, a \in Actions :
        hasPermission(permissions, roles, users, u, r, a)
            <=> /\ u \in DOMAIN users
                /\ HeldPermissions(u) \cap
                     { << r, a >>, << r, "*" >>, << "*", "*" >> } # {}

\* A principal holding ('*', 'write') and ('transaction', '*') was just
\* refused 'user':'write'.
C1_Witness ==
    \E u \in DOMAIN users :
        /\ Did("hasPermission", << u, "user", "write" >>, "false")
        /\ << "*", "write" >> \in HeldPermissions(u)
        /\ << "transaction", "*" >> \in HeldPermissions(u)
        /\ hasPermission(permissions, roles, users, u, "transaction", "delete")

\* C2: hasMinimumRole with a minimum role that ROLE_HIERARCHY does not name
\* ends in an error for every user id, also one that is not in the store;
\* it never answers false.
C2_UnknownRoleIsError ==
    [][ ( /\ last'.op = "hasMinimumRole"
          /\ last'.args[2] \notin Range(ROLE_HIERARCHY) )
            => last'.out \notin { "true", "false" } ]_vars

ClaimedLevel ==
    [ n \in { "member", "manager", "admin", "super_admin" } |->
        CASE n = "member" -> 0 [] n = "manager" -> 1 [] n = "admin" -> 2
          [] n = "super_admin" -> 3 ]

\* C3: hasMinimumRole is monotonic over member < manager < admin <
\* super_admin: a principal holding a role at level L passes every minimum
\* role at a level <= L, and one whose roles are all below the minimum role,
\* or who holds none, is refused.
C3_MinimumRoleMonotonic ==
    \A u \in DOMAIN users, m \in DOMAIN ClaimedLevel :
        LET held == HeldRoleNames(u)
            answer == hasMinimumRole(roles, users, u, m)
        IN  /\ (\E n \in held \cap DOMAIN ClaimedLevel :
                    ClaimedLevel[m] <= ClaimedLevel[n]) => answer = "true"
            /\ (\A n \in held : /\ n \in DOMAIN ClaimedLevel
                                /\ ClaimedLevel[n] < ClaimedLevel[m])
                   => answer = "false"

\* A principal whose highest role is admin just passed the minimum role
\* manager, which it does not hold.
C3_Witness ==
    \E u \in DOMAIN users :
        /\ Did("hasMinimumRole", << u, "manager" >>, "true")
        /\ "admin" \in HeldRoleNames(u)
        /\ "manager" \notin HeldRoleNames(u)
        /\ "super_admin" \notin HeldRoleNames(u)

\* C4: when the principal holds a role that ROLE_HIERARCHY does not name,
\* hasMinimumRole ends in a configuration error; it does not rank that role
\* below every level and answer.
C4_UnlistedHeldRoleIsError ==
    [][ ( /\ last'.op = "hasMinimumRole"
          /\ last'.args[1] \in DOMAIN users
          /\ \E n \in HeldRoleNames(last'.args[1]) :
                n \notin Range(ROLE_HIERARCHY) )
            => last'.out \notin { "true", "false" } ]_vars

QueryActionLists ==
    { << >>, << "read" >>, << "read", "write" >>, << "write", "delete" >>,
      << "*" >> }

\* C5 as claimed: for every user id and every list of actions, the empty one
\* too, hasAnyPermission is the disjunction and hasAllPermissions the
\* conjunction of hasPermission over the actions.
C5_AnyAllAsClaimed ==
    [][ /\ last'.op = "hasAnyPermission" =>
              last'.out = Bool(\E i \in DOMAIN last'.args[3] :
                  hasPermission(permissions, roles, users, last'.args[1],
                                last'.args[2], last'.args[3][i]))
        /\ last'.op = "hasAllPermissions" =>
              last'.out = Bool(\A i \in DOMAIN last'.args[3] :
                  hasPermission(permissions, roles, users, last'.args[1],
                                last'.args[2], last'.args[3][i]))
      ]_vars

\* C5 amended: hasAnyPermission is the disjunction of hasPermission over the
\* actions for every user id and list; hasAllPermissions is the conjunction
\* when the user exists, and false when the user does not exist, also for
\* the empty list.
C5_AnyAllCombine ==
    \A u \in UserIds, r \in Resources, l \in QueryActionLists :
        /\ hasAnyPermission(permissions, roles, users, u, r, l)
              <=> \E i \in DOMAIN l :
                     hasPermission(permissions, roles, users, u, r, l[i])
        /\ hasAllPermissions(permissions, roles, users, u, r, l)
              <=> /\ u \in DOMAIN users
                  /\ \A i \in DOMAIN l :
                        hasPermission(permissions, roles, users, u, r, l[i])

\* A member was just refused 'transaction' read-and-write, of which it has
\* read only; and some user id is not in the store.
C5_Witness ==
    \E u \in DOMAIN users :
        /\ Did("hasAllPermissions",
                       << u, "transaction", << "read", "write" >> >>, "false")
        /\ hasAnyPermission(permissions, roles, users, u, "transaction",
                            << "read", "write" >>)
        /\ ~hasAllPermissions(permissions, roles, users, Len(users) + 1,
                              "transaction", << >>)

SeededStore ==
    LET s == seedRolesAndPermissions({}, {})
    IN  s.permissions \subseteq permissions /\ s.roles \subseteq roles

\* C6: seeding an empty store succeeds, and in a store seeded so a principal
\* whose only role is member is refused 'transaction':'write', while the
\* check that follows a completed assignRole(P, 'admin') grants it.
C6_AssignVisibleToNextCheck ==
    /\ seedRolesAndPermissions({}, {}).out = "ok"
    /\ SeededStore =>
          \A u \in DOMAIN users :
              HeldRoleNames(u) = { "member" } =>
                  LET r == assignRole(roles, users, u, "admin")
                  IN  /\ ~hasPermission(permissions, roles, users, u,
                                        "transaction", "write")
                      /\ r.out = "ok"
                      /\ hasPermission(permissions, roles, r.users, u,
                                       "transaction", "write")

\* A principal holding member and admin from the seeded store was just
\* granted 'transaction':'write'.
C6_Witness ==
    \E u \in DOMAIN users :
        /\ Did("hasPermission", << u, "transaction", "write" >>, "true")
        /\ HeldRoleNames(u) = { "member", "admin" }
        /\ SeededStore

QueryRoleLists ==
    { << >>, << "admin" >>, << "admin", "admin" >>, << "member", "admin" >>,
      << "super_admin", "auditor" >>, << "member", "nosuch" >>, << "nosuch" >> }

NoDuplicateRoles(us) ==
    \A u \in DOMAIN us : \A id \in DOMAIN us[u].roles : CopiesIn(id, us[u].roles) <= 1

\* C7: assignRole twice leaves the role set that assignRole once leaves, and
\* no sequence of assignRole, assignRoles, removeRole and removeRoles makes a
\* user hold a role id more than once.
C7_AssignRoleIdempotent ==
    /\ NoDuplicateRoles(users)
    /\ \A u \in DOMAIN users, n \in RoleNames :
          LET once == assignRole(roles, users, u, n)
              twice == assignRole(roles, once.users, u, n)
          IN  once.out = "ok" =>
                  /\ twice.out = "ok"
                  /\ twice.users = once.users
                  /\ NoDuplicateRoles(once.users)
    /\ \A u \in DOMAIN users, l \in QueryRoleLists :
          /\ NoDuplicateRoles(assignRoles(roles, users, u, l).users)
          /\ NoDuplicateRoles(removeRoles(roles, users, u, l).users)

\* assignRole(u, 'admin') just succeeded for a user who holds admin next to
\* another role.
C7_Witness ==
    \E u \in DOMAIN users :
        /\ Did("assignRole", << u, "admin" >>, "ok")
        /\ "admin" \in HeldRoleNames(u)
        /\ Cardinality(HeldRoleNames(u)) >= 2

\* C8: assignRoles(u, names) of an existing user succeeds with the role set
\* old \cup {roles named} whenever every name denotes an existing role, also
\* when a name is repeated; when some name denotes no role it fails and the
\* role set is as it was.
C8_AssignRolesIsUnion ==
    [][ last'.op = "assignRoles" /\ last'.args[1] \in DOMAIN users =>
          LET u == last'.args[1]
              l == last'.args[2]
          IN  IF \A i \in DOMAIN l : FindByName(roles, l[i]) # {}
              THEN /\ last'.out = "ok"
                   /\ DOMAIN users'[u].roles =
                        DOMAIN users[u].roles \cup
                          { role.id : role \in { r \in roles : r.name \in Range(l) } }
              ELSE /\ last'.out # "ok"
                   /\ users' = users ]_vars

RolesRemoved(us, u, names) ==
    [us EXCEPT ![u].roles =
        [id \in DOMAIN @ \ { role.id : role \in { r \in roles : r.name \in names } }
            |-> @[id]]]

\* C9: removeRole and removeRoles leave exactly the old role set minus the
\* roles named and touch nothing else; naming a role the user does not hold,
\* or no role at all, succeeds and changes nothing; only a missing user is
\* an error.
C9_RemoveIsDifference ==
    \A u \in UserIds :
        /\ \A n \in RoleNames :
              LET r == removeRole(roles, users, u, n)
              IN  IF u \in DOMAIN users
                  THEN r.out = "ok" /\ r.users = RolesRemoved(users, u, {n})
                  ELSE r.out # "ok" /\ r.users = users
        /\ \A l \in QueryRoleLists :
              LET r == removeRoles(roles, users, u, l)
              IN  IF u \in DOMAIN users
                  THEN r.out = "ok" /\ r.users = RolesRemoved(users, u, Range(l))
                  ELSE r.out # "ok" /\ r.users = users

\* removeRoles(u, ['admin', 'auditor']) just succeeded for a user who keeps
\* super_admin, a role that is only ever assigned together with auditor.
C9_Witness ==
    \E u \in DOMAIN users :
        /\ Did("removeRoles", << u, << "admin", "auditor" >> >>, "ok")
        /\ "super_admin" \in HeldRoleNames(u)
        /\ "auditor" \notin HeldRoleNames(u)

UniqueNames(table) == \A x, y \in table : x.name = y.name => x = y

QueryPermissionPairs ==
    CreatePermissionInputs \cup { << "user", "delete" >>, << "*", "*" >> }
QueryPermissionNameLists == PermissionNameLists \cup { << >>, << "*:*" >> }

C11_NotFoundIffNameMissing ==
    [][ last'.op \in { "createRole", "updateRolePermissions" } =>
          LET roleName == last'.args[1]
              names == last'.args[2]
              missing == \E i \in DOMAIN names :
                             FindByName(permissions, names[i]) = {}
              reached == IF last'.op = "createRole"
                         THEN ~RoleExists(roles, roleName)
                         ELSE RoleExists(roles, roleName)
          IN  /\ reached =>
                    (last'.out = "Error: Some permissions not found" <=> missing)
              /\ last'.out # "ok" => roles' = roles
              /\ last'.op = "updateRolePermissions" /\ last'.out = "ok" =>
                    \A r \in FindByName(roles', roleName) :
                        { p.name : p \in PermissionsOf(permissions, r) }
                            = Range(names) ]_vars


BuiltInPermissionNames == { APP_PERMISSIONS[i].name : i \in DOMAIN APP_PERMISSIONS }
BuiltInRoleNames == { APP_ROLES[i].name : i \in DOMAIN APP_ROLES }

\* C12: seedRolesAndPermissions run twice leaves the tables that one run
\* leaves; a run keeps every row it finds as it is, the permission set of a
\* role included, and adds exactly one row for each built-in name that no row
\* had.
C12_SeedIdempotent ==
    LET once == seedRolesAndPermissions(permissions, roles)
        twice == seedRolesAndPermissions(once.permissions, once.roles)
    IN  /\ once.out = "ok" /\ twice.out = "ok"
        /\ twice.permissions = once.permissions
        /\ twice.roles = once.roles
        /\ permissions \subseteq once.permissions
        /\ roles \subseteq once.roles
        /\ { p.name : p \in once.permissions \ permissions }
              = BuiltInPermissionNames \ { p.name : p \in permissions }
        /\ { r.name : r \in once.roles \ roles }
              = BuiltInRoleNames \ { r.name : r \in roles }
        /\ Cardinality(once.permissions \ permissions)
              = Cardinality(BuiltInPermissionNames \ { p.name : p \in permissions })
        /\ Cardinality(once.roles \ roles)
              = Cardinality(BuiltInRoleNames \ { r.name : r \in roles })

\* seedRolesAndPermissions has run on a store that held a built-in role whose
\* permissions were replaced, and a custom permission and role.
C12_Witness ==
    /\ last.op = "seedRolesAndPermissions" /\ last.out = "ok"
    /\ \E r \in FindByName(roles, "member") :
          { p.name : p \in PermissionsOf(permissions, r) } = { "*:write" }
    /\ FindByName(roles, "auditor") # {}
    /\ BuiltInRoleNames \subseteq { r.name : r \in roles }

\* C13: ownsResource answers true or false and never throws: true exactly when
\* the model is an entity and one of userId, ownerId, createdBy, authorId is a
\* column of it that holds the user id in the row of that id; a field that is
\* no column is passed over and the later fields still count; an unknown
\* model gets false, and so does every call while the store cannot be reached.
C13_OwnsResourceIffFieldMatches ==
    \A up \in BOOLEAN, u \in UserIds, m \in ResourceModels, id \in ResourceIds :
        LET out == ownsResource(resources, up, u, m, id)
            owned == /\ up
                     /\ m \in DOMAIN EntityFields
                     /\ \E row \in resources[m], f \in Range(ownershipFields) :
                           /\ f \in EntityFields[m]
                           /\ row.id = id
                           /\ row.owners[f] = u
        IN  /\ out \in { "true", "false" }
            /\ out = "true" <=> owned

\* ownsResource has answered true for an invoice whose userId column does not
\* exist and whose ownerId is null: createdBy, the third field, matched.
C13_Witness ==
    /\ last.op = "ownsResource" /\ last.out = "true"
    /\ last.args[2] = "Invoice"
    /\ \E row \in resources.Invoice :
          /\ row.id = last.args[3]
          /\ row.owners.ownerId = NoOwner
          /\ row.owners.createdBy = last.args[1]

\* The answer of the named middleware to a request, and whether the check of
\* the service it relies on returned true.
Answer(mw, up, u, l, m, id) ==
    CASE mw = "authorize" ->
           authorize(permissions, roles, users, up, u, "transaction", l)
      [] mw = "authorizeAll" ->
           authorizeAll(permissions, roles, users, up, u, "transaction", l)
      [] mw = "requireAnyRole" -> requireAnyRole(roles, users, up, u, l)
      [] mw = "requireAllRoles" -> requireAllRoles(roles, users, up, u, l)
      [] mw = "requireMinimumRole" -> requireMinimumRole(roles, users, up, u, m)
      [] mw = "requireResourceOwnership" ->
           requireResourceOwnership(resources, up, u, "Invoice", id)
      [] mw = "requireOwnershipOrPermission" ->
           requireOwnershipOrPermission(permissions, roles, users, resources,
               up, u, "Invoice", "transaction", "write", id)

Granted(mw, up, u, l, m, id) ==
    LET owns == id # NoParam
                  /\ ownsResource(resources, up, u, "Invoice", id) = "true"
    IN  CASE mw = "authorize" ->
               up /\ hasAnyPermission(permissions, roles, users, u,
                                      "transaction", l)
          [] mw = "authorizeAll" ->
               up /\ hasAllPermissions(permissions, roles, users, u,
                                       "transaction", l)
          [] mw = "requireAnyRole" -> up /\ hasAnyRole(roles, users, u, l)
          [] mw = "requireAllRoles" -> up /\ hasAllRoles(roles, users, u, l)
          [] mw = "requireMinimumRole" ->
               up /\ hasMinimumRole(roles, users, u, m) = "true"
          [] mw = "requireResourceOwnership" -> owns
          [] mw = "requireOwnershipOrPermission" ->
               owns \/ (up /\ hasPermission(permissions, roles, users, u,
                                             "transaction", "write"))

Middlewares ==
    { "authorize", "authorizeAll", "requireAnyRole", "requireAllRoles",
      "requireMinimumRole", "requireResourceOwnership",
      "requireOwnershipOrPermission" }

\* C14: every authorization middleware calls next only when the check of the
\* service returned true; a check that returned false or threw (the store
\* could not be read) is answered 403 or 500, and a request without req.user
\* is answered 401 whatever the store holds.
C14_NextOnlyWhenGranted ==
    \A mw \in Middlewares, up \in BOOLEAN, u \in ReqUsers,
       l \in AuthorizeActionLists \cup RequiredRoleLists,
       m \in MinimumRoles, id \in RequestParams :
        LET out == Answer(mw, up, u, l, m, id)
        IN  /\ u = NoUser => out = "401"
            /\ out = "next" => u # NoUser /\ Granted(mw, up, u, l, m, id)
            /\ u # NoUser /\ id # NoParam /\ ~Granted(mw, up, u, l, m, id)
                  => out \in { "403", "500" }

\* A request of a principal who holds admin was refused with 500 by authorize
\* because the store could not be read.
C14_Witness ==
    /\ last.op = "authorize" /\ last.out = "500"
    /\ last.args[1] \in DOMAIN users
    /\ ~last.args[2]
    /\ hasAnyPermission(permissions, roles, users, last.args[1],
                        last.args[3], last.args[4])

\* C15: a denial can be told from "principal not found": for one request, a
\* check or middleware answers a user id that is not in the store otherwise
\* than it answers an existing user who lacks the permission or role.
C15_DenialDistinctFromNotFound ==
    \A u \in DOMAIN users, v \in UserIds \ DOMAIN users :
        /\ \A q \in PermissionQueries :
              ~hasPermission(permissions, roles, users, u, q[1], q[2])
                 => Bool(hasPermission(permissions, roles, users, u, q[1], q[2]))
                      # Bool(hasPermission(permissions, roles, users, v, q[1], q[2]))
        /\ \A l \in RequiredRoleLists :
              ~hasAnyRole(roles, users, u, l)
                 => requireAnyRole(roles, users, TRUE, u, l)
                      # requireAnyRole(roles, users, TRUE, v, l)
        /\ \A l \in AuthorizeActionLists :
              ~hasAnyPermission(permissions, roles, users, u, "transaction", l)
                 => authorize(permissions, roles, users, TRUE, u, "transaction", l)
                      # authorize(permissions, roles, users, TRUE, v, "transaction", l)

\* C16: a role mutation is seen whole or not at all.  The role names a check
\* reads for a user change only in the step in which assignRoles or
\* removeRoles saves, and after that step the user holds every role the call
\* named (or none of them); the permissions of a role change only in the step
\* in which updateRolePermissions saves, and are then exactly those named.
C16_MutationSeenWhole ==
    [][ /\ \A u \in DOMAIN users :
            getUserRoles(roles', users', u) # getUserRoles(roles, users, u) =>
              \E c \in Clients :
                /\ pending[c].op \in { "assignRoles", "removeRoles" }
                /\ pending[c].u = u
                /\ pending'[c] = Idle
                /\ IF pending[c].op = "assignRoles"
                   THEN Range(pending[c].roleNames)
                          \subseteq getUserRoles(roles', users', u)
                   ELSE Range(pending[c].roleNames)
                          \cap getUserRoles(roles', users', u) = {}
        /\ \A r \in roles :
            r \notin roles' =>
              \E c \in Clients :
                /\ pending[c].op = "updateRolePermissions"
                /\ pending[c].roleName = r.name
                /\ pending'[c] = Idle
                /\ \A w \in FindByName(roles', r.name) :
                      { p.name : p \in PermissionsOf(permissions, w) }
                        = Range(pending[c].permissionNames) ]_vars

\* An assignRoles of two roles has saved while the removeRoles of another
\* client was in flight, and the user holds both roles.
C16_Witness ==
    /\ last.op = "assignRoles" /\ last.out = "ok"
    /\ Len(last.args[2]) = 2
    /\ Range(last.args[2]) \subseteq getUserRoles(roles, users, last.args[1])
    /\ \E c \in Clients : pending[c].op = "removeRoles"

QueryTenants == { "c1", "c2" }
AllQueries ==
    [page : { 0, 1 }, limit : { 0, 20 }, search : { "", "user1" },
     status : { "", "suspended" }, includeInactive : BOOLEAN,
     sortBy : { "", "createdAt" }, sortOrder : { "", "ASC" }]

\* C17: the key getUsers builds is the same for the same tenant and query
\* parameters, and differs for two calls that differ in the tenant or in any
\* of search, status, includeInactive, sortBy, sortOrder, page and limit; so
\* two getUsers calls that meet at one key in the cache asked the same.
C17_ListKeysCollisionFree ==
    /\ \A c, d \in Clients :
          /\ pending[c].op = "withCache" /\ pending[c].call = "getUsers"
          /\ pending[d].op = "withCache" /\ pending[d].call = "getUsers"
          /\ pending[c].key = pending[d].key
          => pending[c].args = pending[d].args
    /\ \A q1, q2 \in AllQueries, t1, t2 \in QueryTenants :
          ListKey(q1, t1) = ListKey(q2, t2) <=> (q1 = q2 /\ t1 = t2)

\* C18: a write that changes a user leaves no value cached before it under a
\* key derived from the user: after a createUser, updateUser or deleteUser
\* of user U in tenant T that changed the store, the detail key of U and the
\* list keys of T hold nothing they held before the write.
C18_WritesInvalidate ==
    [][ /\ last'.op \in { "createUser", "updateUser", "deleteUser" }
        /\ users' # users
        => LET U == IF last'.op = "createUser" THEN Len(users')
                    ELSE last'.args[1]
               T == IF last'.op = "deleteUser" THEN last'.args[2]
                    ELSE last'.args[3]
               keys == { DetailKey(U) } \cup { ListKey(q, T) : q \in UserQueries }
           IN  \A k \in keys \cap DOMAIN cache :
                   k \in DOMAIN cache' => cache'[k] # cache[k] ]_vars

Eligible(j) == jobs[j].state \in { "waiting", "active", "completed" }

\* C20: of the calculateAnalytics calls made for one tenant and type inside
\* one delay window, one job becomes eligible to run: no two jobs of the same
\* tenant and type that were added less than the delay apart are both handed
\* to the worker.
C20_OneJobPerWindow ==
    \A i, j \in DOMAIN jobs :
        /\ i < j
        /\ jobs[i].data.companyId = jobs[j].data.companyId
        /\ jobs[i].data.type = jobs[j].data.type
        /\ jobs[j].addedAt - jobs[i].addedAt < analyticsDelay
        => ~(Eligible(i) /\ Eligible(j))

JobState(j) == IF j \in DOMAIN jobs THEN jobs[j].state ELSE "none"
Terminal(j) == JobState(j) \in { "completed", "failed" }
Retried(j) == JobState(j) = "waiting" /\ jobs[j].attemptsMade > 0

\* C21: an attempt that returns completes the job and an attempt that throws
\* leaves it to be retried while the retry budget lasts; a job is failed
\* exactly when RetryBudget + 1 attempts threw, a failed job is never
\* completed and stays in the queue with its payload, and every job added
\* is eventually completed or failed, a retried one being run again.
C21_JobRetry ==
    /\ [][ \A j \in DOMAIN jobs :
              /\ jobs[j].state = "failed" => jobs'[j] = jobs[j]
              /\ jobs[j].state = "active" /\ jobs'[j] # jobs[j] =>
                    /\ jobs'[j].attemptsMade = jobs[j].attemptsMade + 1
                    /\ jobs'[j].data = jobs[j].data
                    /\ last'.op = "analyticsWorker"
                    /\ IF last'.args[3] = "true"
                       THEN jobs'[j].state = "completed"
                       ELSE IF jobs[j].attemptsMade < RetryBudget
                            THEN jobs'[j].state = "waiting"
                            ELSE jobs'[j].state = "failed" ]_vars
    /\ [](\A j \in DOMAIN jobs :
            /\ jobs[j].state = "failed" => jobs[j].attemptsMade = RetryBudget + 1
            /\ jobs[j].state = "completed" =>
                    jobs[j].attemptsMade \in 1..(RetryBudget + 1))
    /\ \A j \in 1..MaxQueued :
          /\ (j \in DOMAIN jobs) ~> Terminal(j)
          /\ Retried(j) ~> (JobState(j) = "active")

C21_Witness ==
    \E i, j \in DOMAIN jobs :
        /\ jobs[i].state = "failed" /\ jobs[i].attemptsMade = RetryBudget + 1
        /\ jobs[j].state = "completed" /\ jobs[j].attemptsMade > 1

Vanishes(j) == jobs[j].state # "removed" /\ jobs'[j].state = "removed"

\* C22: the clean up removes only completed jobs that were finished at
\* least 24 hours ago: no job of another state ever leaves the queue, and in
\* a step that removes jobs every job that was delayed, waiting, active or
\* failed stays in the queue as it was.
C22_OnlyCompletedRemoved ==
    [][ /\ DOMAIN jobs \subseteq DOMAIN jobs'
        /\ \A j \in DOMAIN jobs :
              Vanishes(j) =>
                /\ jobs[j].state = "completed"
                /\ jobs[j].finishedOn + cleanGrace <= clock
                /\ \A i \in DOMAIN jobs :
                      jobs[i].state \in { "delayed", "waiting", "active", "failed" }
                          => jobs'[i] = jobs[i] ]_vars

C22_Witness ==
    /\ last.op = "clearCompletedJobs"
    /\ \E i, j \in DOMAIN jobs :
          /\ jobs[i].state = "removed"
          /\ jobs[j].state = "failed" /\ jobs[j].finishedOn + cleanGrace <= clock

Removed(u) == u \in DOMAIN users /\ users[u].deleted

\* C23: deleteUser marks the user of that id and tenant removed and keeps
\* the row; with no such user it fails with NotFoundError and changes
\* nothing; no row is ever erased or restored; and for a removed user
\* hasPermission, hasRole and hasMinimumRole with a known role answer false.
C23_SoftDelete ==
    /\ [][ /\ DOMAIN users \subseteq DOMAIN users'
           /\ \A u \in DOMAIN users :
                 /\ users'[u].email = users[u].email
                 /\ users'[u].companyId = users[u].companyId
                 /\ users[u].deleted => users'[u] = users[u]
           /\ last'.op = "deleteUser" =>
                 LET id == last'.args[1]
                     t == last'.args[2]
                 IN  IF id \in DOMAIN users /\ ~users[id].deleted
                          /\ users[id].companyId = t
                     THEN /\ last'.out = "ok"
                          /\ users' = [users EXCEPT ![id].deleted = TRUE]
                     ELSE /\ last'.out = "NotFoundError: User not found"
                          /\ users' = users ]_vars
    /\ [](\A u \in UserIds :
            Removed(u) =>
              /\ \A r \in Resources, a \in Actions :
                    ~hasPermission(permissions, roles, users, u, r, a)
              /\ \A n \in RoleNames : ~hasRole(roles, users, u, n)
              /\ \A i \in DOMAIN ROLE_HIERARCHY :
                    hasMinimumRole(roles, users, u, ROLE_HIERARCHY[i]) = "false"
              /\ last.op \in { "hasPermission", "hasRole", "hasMinimumRole" }
                    /\ last.args[1] = u => last.out = "false")

C23_Witness ==
    /\ last.op = "hasPermission" /\ last.out = "false"
    /\ Removed(last.args[1])
    /\ checkUserPermission(permissions, roles, users, last.args[1],
                           last.args[2], last.args[3])

\* C24: for an authenticated user requireOwnershipOrPermission answers with
\* exactly one of next, 403 and 500; it calls next exactly when the user
\* owns the resource named by the route parameter or hasPermission returns
\* true; an owner passes whatever the permissions are; and without a resource
\* id, or when the ownership probe says false, the answer is that of the
\* permission check: next, 403, or 500 when the check throws.
C24_OwnershipOrPermission ==
    /\ last.op = "requireOwnershipOrPermission" /\ last.args[1] # NoUser
          => last.out \in { "next", "403", "500" }
    /\ \A up \in BOOLEAN, u \in UserIds, model \in RequestModels,
          id \in RequestParams \cup ResourceIds :
          LET out == requireOwnershipOrPermission(permissions, roles, users,
                         resources, up, u, model, "transaction", "write", id)
              owns == /\ id # NoParam
                      /\ ownsResource(resources, up, u, model, id) = "true"
              has == hasPermission(permissions, roles, users, u,
                                   "transaction", "write")
          IN  /\ out \in { "next", "403", "500" }
              /\ out = "next" <=> (owns \/ (up /\ has))
              /\ ~owns => out = IF ~up THEN "500"
                                ELSE IF has THEN "next" ELSE "403"

\* A request for a resource of somebody else was let through on the
\* permission.
C24_Witness ==
    /\ last.op = "requireOwnershipOrPermission"
    /\ last.out = "next"
    /\ last.args[4] = "r1"
    /\ ownsResource(resources, TRUE, last.args[1], "Invoice", "r1") = "false"

\* C25: when the read through getUserById that ends an updateUser returns,
\* the value it returns, which is the value then held under the detail key
\* of the user, is the row as the store holds it after the save.
C25_UpdateReturnsPersisted ==
    [][ \A d \in Clients :
          ( /\ pending[d].op = "withCache"
            /\ pending[d].caller = "updateUser"
            /\ pending'[d].op = "idle"
            /\ pending[d].key \in DOMAIN cache' )
            => cache'[pending[d].key] = UserView(users', pending[d].args[1])
      ]_vars

RoleNamesIn(table) == { role.name : role \in table }

\* C26: a user that createUser persists holds a role: the roles of the
\* requested names that the table holds, after the seeding when none of them
\* was there before, and the member role when none is requested or none of
\* the requested names is a role even after the seeding.
C26_CreatedUserHoldsRole ==
    [][ ( /\ last'.op = "createUser"
          /\ last'.out = "ok"
          /\ Len(users') = Len(users) + 1 )
          => LET requested == Range(last'.args[2])
                 held == RoleNamesIn(RolesOf(users', roles', Len(users')))
                 known == requested \cap RoleNamesIn(roles')
             IN  /\ held # {}
                 /\ known = {} => held = { "member" }
                 /\ known # {} => held = known
                 /\ requested \cap RoleNamesIn(roles) # {} => roles' = roles
      ]_vars

\* A user was created with a request that named no role of the table and
\* holds member.
C26_Witness ==
    /\ last.op = "createUser" /\ last.out = "ok"
    /\ Range(last.args[2]) # {}
    /\ Range(last.args[2]) \cap RoleNamesIn(roles) = {}
    /\ RoleNamesIn(RolesOf(users, roles, Len(users))) = { "member" }

\* C27: getUserById(id, companyId) returns a user only of the company named
\* by its companyId argument, and fails with NotFoundError for a user of
\* another company, whatever has been cached before.
C27_DetailReadIsolated ==
    last.op = "getUserById" =>
        IF /\ last.args[1] \in DOMAIN users
           /\ users[last.args[1]].companyId = last.args[2]
        THEN /\ last.out \in { "hit", "miss" }
             /\ last.value.companyId = last.args[2]
        ELSE last.out = "NotFoundError: User not found"

\* C28: the save that ends an assignRole changes the stored role set of the
\* user by adding the role and nothing else, and the save that ends a
\* removeRole by removing the role and nothing else, so that a change made
\* by a call that ran meanwhile is kept.
C28_NoLostRoleUpdate ==
    [][ \A c \in Clients :
          ( /\ pending[c].op \in { "assignRole", "removeRole" }
            /\ pending'[c].op = "idle" )
            => LET u == pending[c].u
                   named == { r.id : r \in FindByName(roles, pending[c].roleNames) }
               IN  DOMAIN users'[u].roles =
                     IF pending[c].op = "assignRole"
                     THEN DOMAIN users[u].roles \cup named
                     ELSE DOMAIN users[u].roles \ named
      ]_vars

Ends(c) == pending[c].op = "acceptInvite" /\ pending'[c].op = "idle"

\* C29: an acceptInvite that ends with the error of createUser leaves the
\* invite active; the status of an invite only goes from active to expired,
\* after expiresAt, or from active to used; and only a token whose invite is
\* active and not past expiresAt passes the check.
C29_UsedOnlyWhenUserCreated ==
    [][ /\ \A c \in Clients :
              Ends(c) /\ last'.out # "ok"
                  => invites'[pending[c].token].status = "active"
        /\ \A t \in DOMAIN invites :
              invites'[t].status # invites[t].status =>
                  /\ invites[t].status = "active"
                  /\ invites'[t].status \in { "expired", "used" }
                  /\ invites'[t].status = "expired" => clock > invites[t].expiresAt
        /\ \A c \in Clients :
              pending[c].op = "idle" /\ pending'[c].op = "acceptInvite" =>
                  /\ invites[pending'[c].token].status = "active"
                  /\ clock <= invites[pending'[c].token].expiresAt
      ]_vars

\* C30: no two stored users share an email, however the acceptInvite and
\* createUser calls for one token or one email interleave: of the calls that
\* run at once at most one persists a user.
C30_OneUserPerEmail ==
    \A u, v \in DOMAIN users : u # v => users[u].email # users[v].email

=============================================================================
